---- MODULE Spec2Model ----
(***************************************************************************)
(* Verification model of the golden_gate offboarding pipeline              *)
(* (backend/): the question backlog and its cap, the per-file deep-dive    *)
(* sub-workflow and its fan-out/fan-in, and the suspend/resume interview   *)
(* served by routes/interview.py on top of a LangGraph graph compiled     *)
(* with an in-memory checkpointer.                                         *)
(*                                                                         *)
(* Specifications:                                                         *)
(*   SpecCap   - _enforce_cap applied to an arbitrary backlog              *)
(*   SpecRoute - should_continue_passes on an arbitrary sub-workflow state *)
(*   SpecFan   - fan-out of file_deep_dive sub-workflows and the fan-in    *)
(*   Spec      - sessions: start, stages, interview, respond/end, restart  *)
(***************************************************************************)
EXTENDS Integers, Sequences, FiniteSets, TLC

\* ------------------------------------------------------------------
\* Bounds of the model
\* ------------------------------------------------------------------
\* longest backlog drawn for _enforce_cap
MaxBacklog == 3
\* largest value drawn for settings.MAX_OPEN_QUESTIONS
MaxCap == 2
\* largest pass_number / max_passes drawn for should_continue_passes
MaxPassNumber == 5
\* largest number of files parse_files hands to the fan-out
MaxFiles == 2
\* largest number of questions one deep-dive report carries
MaxReportQuestions == 1
\* largest number of files of a session of Spec
MaxSessionFiles == 1
\* largest number of cross-file questions global_summarize adds
MaxGlobalQuestions == 1
\* settings.MAX_INTERVIEW_ROUNDS as configured for the sessions of Spec
MAX_INTERVIEW_ROUNDS == 3
\* graph runs (one astream call each) a session history may hold
MaxRuns == 4
MaxInFlight == 2
\* process restarts a history may hold
MaxRestarts == 1
\* characters of a fact, facts handed to _deduplicate_facts
MaxFactLen == 3
MaxFacts == 3
\* questions of a backlog handed to _apply_decisions
MaxRecBacklog == 2
\* files under raw_files/ read by parse_files
MaxRawFiles == 3

\* ------------------------------------------------------------------
\* Program constants
\* ------------------------------------------------------------------
DEEP_DIVE_PASSES_XLSX == 3
DEEP_DIVE_PASSES_DEFAULT == 2
MAX_OPEN_QUESTIONS == 8
\* len(DEMO_QUESTIONS)
DemoQuestionCount == 2
DEMO_MODE == TRUE
EndSignal == "[USER_ENDED_INTERVIEW]"

None == "None"

\* models/questions.py
QuestionStatus == {"open", "answered_by_files", "answered_by_interview",
                   "merged", "deprioritized"}
QuestionPriority == {"P0", "P1", "P2"}
QuestionOrigin == {"per_file", "global", "follow_up"}

\* ------------------------------------------------------------------
\* Generic sequence helpers
\* ------------------------------------------------------------------
RECURSIVE SeqsUpTo(_, _)
SeqsUpTo(S, n) ==
    IF n = 0 THEN {<<>>}
    ELSE LET shorter == SeqsUpTo(S, n - 1)
         IN  shorter \cup {Append(q, x) : q \in {p \in shorter : Len(p) = n - 1}, x \in S}

Range(s) == {s[i] : i \in 1..Len(s)}

\* ------------------------------------------------------------------
\* nodes/reconcile_questions.py : _enforce_cap
\* ------------------------------------------------------------------
\* priority_order.get(q.priority, 9)
priority_order(p) ==
    CASE p = "P0" -> 0
      [] p = "P1" -> 1
      [] p = "P2" -> 2
      [] OTHER -> 9

\* open_qs = [q for q in questions if q.status == OPEN], as backlog indices
RECURSIVE OpenIndicesFrom(_, _)
OpenIndicesFrom(questions, i) ==
    IF i > Len(questions) THEN <<>>
    ELSE IF questions[i].status = "open"
         THEN <<i>> \o OpenIndicesFrom(questions, i + 1)
         ELSE OpenIndicesFrom(questions, i + 1)

OpenIndices(questions) == OpenIndicesFrom(questions, 1)

\* list.sort(key=...) is a stable sort: ascending key, ties keep list order
RECURSIVE InsertByKey(_, _, _)
InsertByKey(sorted, i, key) ==
    IF sorted = <<>> THEN <<i>>
    ELSE IF key[i] < key[Head(sorted)] THEN <<i>> \o sorted
    ELSE <<Head(sorted)>> \o InsertByKey(Tail(sorted), i, key)

RECURSIVE StableSortFrom(_, _, _)
StableSortFrom(idxs, key, k) ==
    IF k = 0 THEN <<>>
    ELSE CHOOSE out \in {InsertByKey(prev, idxs[k], key) :
                             prev \in {StableSortFrom(idxs, key, k - 1)}} : TRUE

\* elements are inserted in list order, each after every equal key
StableSort(idxs, key) == StableSortFrom(idxs, key, Len(idxs))

\* slice one too far: open_qs[cap + 1:]
enforce_cap_off_by_one(questions, cap) ==
    LET open_qs == OpenIndices(questions)
        key     == [i \in 1..Len(questions) |-> priority_order(questions[i].priority)]
        sorted  == StableSort(open_qs, key)
        excess  == {sorted[k] : k \in (cap + 2)..Len(sorted)}
    IN  [i \in 1..Len(questions) |->
            IF i \in excess
            THEN [questions[i] EXCEPT !.status = "deprioritized"]
            ELSE questions[i]]

\* wrong side of the slice: open_qs[:cap]
enforce_cap_wrong_side(questions, cap) ==
    LET open_qs == OpenIndices(questions)
        key     == [i \in 1..Len(questions) |-> priority_order(questions[i].priority)]
        sorted  == StableSort(open_qs, key)
        excess  == {sorted[k] : k \in 1..(IF cap < Len(sorted) THEN cap ELSE Len(sorted))}
    IN  [i \in 1..Len(questions) |->
            IF i \in excess
            THEN [questions[i] EXCEPT !.status = "deprioritized"]
            ELSE questions[i]]

\* the sort by priority left out: open_qs[cap:] in insertion order
enforce_cap_unsorted(questions, cap) ==
    LET open_qs == OpenIndices(questions)
        excess  == {open_qs[k] : k \in (cap + 1)..Len(open_qs)}
    IN  [i \in 1..Len(questions) |->
            IF i \in excess
            THEN [questions[i] EXCEPT !.status = "deprioritized"]
            ELSE questions[i]]

\* for q in open_qs[cap:]: q.status = DEPRIORITIZED
enforce_cap(questions, cap) ==
    LET open_qs == OpenIndices(questions)
        key     == [i \in 1..Len(questions) |-> priority_order(questions[i].priority)]
        sorted  == StableSort(open_qs, key)
        excess  == {sorted[k] : k \in (cap + 1)..Len(sorted)}
    IN  [i \in 1..Len(questions) |->
            IF i \in excess
            THEN [questions[i] EXCEPT !.status = "deprioritized"]
            ELSE questions[i]]

\* ------------------------------------------------------------------
\* nodes/deep_dive.py : should_continue_passes
\* ------------------------------------------------------------------
FileTypes == {"xlsx", "xls", "py", "docx"}

ConfiguredPasses(file_type) ==
    IF file_type \in {"xlsx", "xls"}
    THEN DEEP_DIVE_PASSES_XLSX
    ELSE DEEP_DIVE_PASSES_DEFAULT

\* max_passes is <<>> when the key is absent from the state, <<n>> otherwise
\* boundary off by one: pass_number >= max_passes
should_continue_passes_ge(state) ==
    LET max_passes == IF state.max_passes = <<>>
                      THEN ConfiguredPasses(state.file_type)
                      ELSE state.max_passes[1]
    IN  IF state.pass_number >= max_passes THEN "done" ELSE "continue"

should_continue_passes(state) ==
    LET max_passes == IF state.max_passes = <<>>
                      THEN ConfiguredPasses(state.file_type)
                      ELSE state.max_passes[1]
    IN  IF state.pass_number > max_passes THEN "done" ELSE "continue"

\* ------------------------------------------------------------------
\* models/state.py : reducers
\* ------------------------------------------------------------------
\* a reducer that overwrites instead of appending
append_list_overwrite(existing, new) == new

\* _append_list
append_list(existing, new) == existing \o new

\* ------------------------------------------------------------------
\* nodes/deep_dive.py : the per-file sub-workflow
\* ------------------------------------------------------------------
\* prepare_deep_dive_input: the initial FileDeepDiveState of one file.
\* user_prompt, a local of run_deep_dive_pass, is kept with the state: the
\* earlier reports that the prompt of the latest pass contained.
prepare_deep_dive_input(file, session_id) ==
    [file |-> file,
     user_prompt |-> <<>>,
     pass_number |-> 1,
     max_passes |-> <<ConfiguredPasses(file.file_type)>>,
     previous_passes |-> <<>>,
     current_report |-> <<>>,
     session_id |-> session_id,
     deep_dive_reports |-> <<>>,
     at |-> "run_pass"]

\* _parse_llm_response: the report of one pass; nq questions came back
DeepDiveReport(file, pass_number, nq) ==
    [file_id |-> file.file_id, pass_number |-> pass_number, questions |-> nq]

\* _build_prompt: the earlier reports that go into the prompt of a pass:
\* none for pass 1, previous[0] for pass 2, previous[0] and previous[1] for
\* every later pass
build_prompt(pass_number, previous) ==
    IF pass_number = 1 THEN <<>>
    ELSE IF pass_number = 2 THEN <<previous[1]>>
    ELSE <<previous[1], previous[2]>>

\* run_deep_dive_pass followed by the conditional edge of the subgraph
run_deep_dive_pass(state, nq) ==
    LET report  == DeepDiveReport(state.file, state.pass_number, nq)
        updated == [state EXCEPT
                      !.user_prompt = build_prompt(state.pass_number, state.previous_passes),
                      !.current_report = <<report>>,
                      !.previous_passes = state.previous_passes \o <<report>>,
                      !.pass_number = state.pass_number + 1,
                      !.deep_dive_reports = append_list(state.deep_dive_reports, <<report>>)]
        route   == should_continue_passes(
                      [file_type |-> updated.file.file_type,
                       pass_number |-> updated.pass_number,
                       max_passes |-> updated.max_passes])
    IN  [updated EXCEPT !.at = IF route = "continue" THEN "run_pass" ELSE "END"]

\* an output schema that is the whole FileDeepDiveState
FileDeepDiveOutput_whole_state(state) == state

\* FileDeepDiveOutput: the only key written back to the parent
FileDeepDiveOutput(state) == [deep_dive_reports |-> state.deep_dive_reports]

\* the parent's deep_dive_reports after merging the outputs in the given order
RECURSIVE MergeOutputs(_, _, _)
MergeOutputs(reports, sub, order) ==
    IF order = <<>> THEN reports
    ELSE MergeOutputs(
            append_list(reports, FileDeepDiveOutput(sub[Head(order)]).deep_dive_reports),
            sub, Tail(order))

\* the keys of FileDeepDiveState that OffboardingState does not have
ScratchFields ==
    {"file", "pass_number", "max_passes", "previous_passes", "current_report"}

\* the parent's keys other than deep_dive_reports when parse_files has
\* returned, and the keys the sub-workflows have written so far
ParentBeforeFanIn ==
    [state |-> [session_id |-> "s1", status |-> "parsed",
                current_step |-> "parse_files"],
     written |-> {}]

\* one output written to the parent: a key without reducer takes the value
WriteOutput(parent, output) ==
    [state |-> [k \in (DOMAIN parent.state \cup DOMAIN output) \ {"deep_dive_reports"} |->
                   IF k \in DOMAIN output THEN output[k] ELSE parent.state[k]],
     written |-> parent.written \cup DOMAIN output]

\* the parent's other keys after the outputs of all sub-workflows are written
RECURSIVE MergeParent(_, _, _)
MergeParent(parent, sub, order) ==
    IF order = <<>> THEN parent
    ELSE MergeParent(WriteOutput(parent, FileDeepDiveOutput(sub[Head(order)])),
                     sub, Tail(order))

\* all orders in which the members of S can be listed
RECURSIVE MergeOrders(_)
MergeOrders(S) ==
    IF S = {} THEN {<<>>}
    ELSE UNION {{<<x>> \o q : q \in MergeOrders(S \ {x})} : x \in S}

\* ------------------------------------------------------------------
\* nodes/concatenate.py : latest report per file
\* ------------------------------------------------------------------
\* variant: the first report of every file is kept, whatever its pass_number
latest_by_file_first(reports, acc) ==
    IF reports = <<>> THEN acc
    ELSE [f \in {reports[i].file_id : i \in 1..Len(reports)} |->
             reports[CHOOSE i \in 1..Len(reports) :
                        /\ reports[i].file_id = f
                        /\ \A j \in 1..(i - 1) : reports[j].file_id # f]]

\* for r in reports: if existing is None or r.pass_number > existing.pass_number
RECURSIVE latest_by_file(_, _)
latest_by_file(reports, acc) ==
    IF reports = <<>> THEN acc
    ELSE LET r == Head(reports)
             existing == IF r.file_id \in DOMAIN acc THEN <<acc[r.file_id]>> ELSE <<>>
         IN  IF existing = <<>> \/ r.pass_number > existing[1].pass_number
             THEN latest_by_file(Tail(reports),
                     [k \in DOMAIN acc \cup {r.file_id} |->
                         IF k = r.file_id THEN r ELSE acc[k]])
             ELSE latest_by_file(Tail(reports), acc)

EmptyMap == [k \in {} |-> 0]

\* latest_by_file.items(): a dict lists its keys in the order of insertion
RECURSIVE dict_keys(_, _)
dict_keys(reports, seen) ==
    IF reports = <<>> THEN <<>>
    ELSE IF Head(reports).file_id \in seen THEN dict_keys(Tail(reports), seen)
    ELSE <<Head(reports).file_id>>
            \o dict_keys(Tail(reports), seen \cup {Head(reports).file_id})

\* lines 43-57: one Question per question of the kept report of every file;
\* question k of the report of pass p of file f has the text <<f, p, k>>
RECURSIVE all_questions(_, _)
all_questions(latest, file_ids) ==
    IF file_ids = <<>> THEN <<>>
    ELSE LET file_id == Head(file_ids)
             report == latest[file_id]
         IN  [k \in 1..report.questions |->
                 [question_text |-> <<report.file_id, report.pass_number, k>>,
                  origin |-> "per_file", source_file_id |-> file_id,
                  status |-> "open"]]
             \o all_questions(latest, Tail(file_ids))

\* ------------------------------------------------------------------
\* models/questions.py : Question
\* ------------------------------------------------------------------
\* a question id is <<serial of the graph run that made it, position>>;
\* uuid4 gives every run fresh ids. Serial 0 is for the DEMO_QUESTIONS.
NewQuestion(id, origin, priority) ==
    [id |-> id, origin |-> origin, priority |-> priority, status |-> "open",
     answer |-> None, confidence |-> None]

\* ------------------------------------------------------------------
\* nodes/concatenate.py, nodes/global_summarize.py : seeding the backlog
\* ------------------------------------------------------------------
\* the questions of the latest report of every file, as open per_file
\* questions of the default priority
RECURSIVE SeedQuestions(_, _, _, _)
SeedQuestions(latest, f, serial, acc) ==
    IF f \notin DOMAIN latest THEN acc
    ELSE SeedQuestions(latest, f + 1, serial,
            acc \o [k \in 1..latest[f].questions |->
                       NewQuestion(<<serial, Len(acc) + k>>, "per_file", "P1")])

\* updated_backlog = list(existing_backlog) + new_questions
AppendGlobalQuestions(backlog, priorities, serial) ==
    backlog \o [k \in 1..Len(priorities) |->
                   NewQuestion(<<serial, Len(backlog) + k>>, "global", priorities[k])]

\* ------------------------------------------------------------------
\* nodes/reconcile_questions.py : _apply_decisions
\* ------------------------------------------------------------------
\* decisions[i] is the decision naming question i, or Omitted; answer is
\* dec.get("answer", ""), the empty text also when the key is missing
Omitted == [action |-> "omitted", priority |-> "P1", answer |-> ""]

\* a question no decision mentions left as it was
ApplyDecision_omitted_untouched(q, dec) ==
    IF dec = Omitted THEN q
    ELSE IF dec.action = "answer"
    THEN [q EXCEPT !.status = "answered_by_files", !.answer = dec.answer,
                   !.confidence = "0.8", !.priority = dec.priority]
    ELSE IF dec.action = "merge" THEN [q EXCEPT !.status = "merged"]
    ELSE IF dec.action = "keep_open"
    THEN [q EXCEPT !.status = "open", !.priority = dec.priority]
    ELSE [q EXCEPT !.status = "open"]

\* an "answer" decision that records the answer and leaves the status
ApplyDecision_answer_keeps_status(q, dec) ==
    IF dec = Omitted THEN [q EXCEPT !.priority = "P2"]
    ELSE IF dec.action = "answer"
    THEN [q EXCEPT !.answer = dec.answer, !.confidence = "0.8",
                   !.priority = dec.priority]
    ELSE IF dec.action = "merge" THEN [q EXCEPT !.status = "merged"]
    ELSE IF dec.action = "keep_open"
    THEN [q EXCEPT !.status = "open", !.priority = dec.priority]
    ELSE [q EXCEPT !.status = "open"]

ApplyDecision(q, dec) ==
    IF dec = Omitted THEN [q EXCEPT !.priority = "P2"]
    ELSE IF dec.action = "answer"
    THEN [q EXCEPT !.status = "answered_by_files", !.answer = dec.answer,
                   !.confidence = "0.8", !.priority = dec.priority]
    ELSE IF dec.action = "merge" THEN [q EXCEPT !.status = "merged"]
    ELSE IF dec.action = "keep_open"
    THEN [q EXCEPT !.status = "open", !.priority = dec.priority]
    ELSE [q EXCEPT !.status = "open"]

\* _apply_decisions, lines 119 and 136-152: building decision_map raises a
\* KeyError for a decision without question_id, and QuestionPriority(...) raises
\* a ValueError for the priority of an "answer" or "keep_open" decision that is
\* not one of its values
apply_decisions_raises(decisions) ==
    \E i \in 1..Len(decisions) :
        \/ "no_question_id" \in DOMAIN decisions[i]
        \/ /\ decisions[i] # Omitted
           /\ decisions[i].action \in {"answer", "keep_open"}
           /\ decisions[i].priority \notin QuestionPriority

\* _apply_decisions under a setting MAX_OPEN_QUESTIONS = cap
apply_decisions_capped(original, decisions, cap) ==
    LET applied == [i \in 1..Len(original) |-> ApplyDecision(original[i], decisions[i])]
        open_count == Cardinality({i \in 1..Len(original) :
                         decisions[i] = Omitted
                         \/ decisions[i].action \notin {"answer", "merge"}})
    IN  IF open_count > cap
        THEN enforce_cap(applied, cap)
        ELSE applied

apply_decisions(original, decisions) ==
    apply_decisions_capped(original, decisions, MAX_OPEN_QUESTIONS)

\* ------------------------------------------------------------------
\* nodes/interview.py : helpers of interview_loop
\* ------------------------------------------------------------------
\* _get_open_questions: indices of the open P0/P1 questions, P0 first
RECURSIVE OpenP0P1From(_, _)
OpenP0P1From(backlog, i) ==
    IF i > Len(backlog) THEN <<>>
    ELSE IF backlog[i].status = "open" /\ backlog[i].priority \in {"P0", "P1"}
         THEN <<i>> \o OpenP0P1From(backlog, i + 1)
         ELSE OpenP0P1From(backlog, i + 1)

get_open_questions(backlog) ==
    StableSort(OpenP0P1From(backlog, 1),
               [i \in 1..Len(backlog) |-> priority_order(backlog[i].priority)])

\* _select_next_question: the one open question, else the question whose id
\* the reasoning service names; an unknown id or a failed call gives
\* open_qs[0], which is one of them too
select_next_question(open_qs) ==
    IF Len(open_qs) = 1 THEN {open_qs[1]} ELSE Range(open_qs)

\* the dummy Question made for a DEMO_QUESTIONS round
DemoQuestionId(round_num) == <<0, round_num + 1>>

CONFIDENCE_MAP(confidence_str) ==
    CASE confidence_str = "high" -> "0.9"
      [] confidence_str = "medium" -> "0.6"
      [] confidence_str = "low" -> "0.3"
      [] OTHER -> "0.6"

\* _add_follow_up
add_follow_up(backlog, serial) ==
    Append(backlog, NewQuestion(<<serial, Len(backlog) + 1>>, "follow_up", "P0"))

\* _add_discovered_question, once for every discovered question
RECURSIVE add_discovered_questions(_, _, _)
add_discovered_questions(backlog, discovered, serial) ==
    IF discovered = <<>> THEN backlog
    ELSE add_discovered_questions(
            Append(backlog,
                   NewQuestion(<<serial, Len(backlog) + 1>>, "follow_up",
                               IF Head(discovered) \in QuestionPriority
                               THEN Head(discovered) ELSE "P1")),
            Tail(discovered), serial)

\* lines 338-340: every open question becomes deprioritized
DeprioritizeOpen(backlog) ==
    [i \in 1..Len(backlog) |->
        IF backlog[i].status = "open"
        THEN [backlog[i] EXCEPT !.status = "deprioritized"]
        ELSE backlog[i]]

\* lines 349-380: the turn is recorded, the asked question is marked, the
\* follow-up and the discovered questions are appended. asked is the index
\* of the asked question in the backlog, 0 for a demo question.
ExtractTurn(vals, round_num, asked, asked_id, response, ex, serial) ==
    LET turn == [turn_id |-> round_num + 1, question_id |-> asked_id,
                 user_response |-> response, extracted_facts |-> ex.facts,
                 follow_up |-> ex.follow_up]
        marked == IF asked = 0 THEN vals.question_backlog
                  ELSE [vals.question_backlog EXCEPT
                          ![asked].status = "answered_by_interview",
                          ![asked].answer = response,
                          ![asked].confidence = CONFIDENCE_MAP(ex.confidence)]
        followed == IF ex.follow_up /\ ex.confidence \in {"low", "medium"}
                    THEN add_follow_up(marked, serial)
                    ELSE marked
    IN  [vals EXCEPT
           !.interview_transcript = Append(vals.interview_transcript, turn),
           !.extracted_facts = vals.extracted_facts \o ex.facts,
           !.question_backlog = add_discovered_questions(followed, ex.discovered, serial)]

\* ------------------------------------------------------------------
\* routes/interview.py, graphs/registry.py : the checkpointer
\* ------------------------------------------------------------------
\* the initial_state of start_offboarding
InitialValues ==
    [structured_files |-> <<>>, deep_dive_reports |-> <<>>,
     question_backlog |-> <<>>, interview_transcript |-> <<>>,
     extracted_facts |-> <<>>, status |-> "started"]

\* a thread the checkpointer knows nothing of: get_state gives an empty
\* snapshot. cid names the checkpoint: <<serial of the writing run, stage>>.
NoCkpt ==
    [exists |-> FALSE, cid |-> <<0, "">>, values |-> InitialValues,
     next |-> "", interrupt |-> <<>>, resume |-> <<>>]

\* has_pending of respond_to_question and end_interview
HasPending(cp) ==
    /\ cp.exists
    /\ \/ cp.next # ""
       \/ cp.interrupt # <<>>

\* a checkpointer kept on durable storage would come back after a restart
CheckpointerKept(store) == store

\* _checkpointer is a module global holding a MemorySaver: a new process
\* starts with an empty one
CheckpointerAfterRestart(store) == [s \in DOMAIN store |-> NoCkpt]

\* ------------------------------------------------------------------
\* routes/interview.py : _deduplicate_facts
\* A fact is a string, modelled as the sequence of its characters.
\* ------------------------------------------------------------------
FactChars == {"A", "b", " "}

Facts == SeqsUpTo(FactChars, MaxFactLen)

\* str.lower on one character
LowerChar(c) == IF c = "A" THEN "a" ELSE c

\* str.lower
lower(text) == [i \in 1..Len(text) |-> LowerChar(text[i])]

\* str.strip
RECURSIVE strip(_)
strip(text) ==
    IF text = <<>> THEN text
    ELSE IF Head(text) = " " THEN strip(Tail(text))
    ELSE IF text[Len(text)] = " " THEN strip(SubSeq(text, 1, Len(text) - 1))
    ELSE text

\* norm of _deduplicate_facts: f.strip().lower()
normalize(fact) == lower(strip(fact))

\* the Python test  x in y  on strings
IsSubstring(x, y) ==
    \E k \in 0..(Len(y) - Len(x)) : SubSeq(y, k + 1, k + Len(x)) = x

\* the stopwords that can be written with FactChars
STOPWORDS == {<<"a">>}

\* _tokenize: the words matched by [a-z0-9_]+ in the lowered text, stopwords
\* removed
tokenize(text) ==
    LET low == lower(text)
        word_char(i) == low[i] # " "
        is_match(i, j) ==
            /\ i <= j
            /\ \A k \in i..j : word_char(k)
            /\ i = 1 \/ ~word_char(i - 1)
            /\ j = Len(low) \/ ~word_char(j + 1)
    IN  {SubSeq(low, i, j) : <<i, j>> \in
            {p \in (1..Len(low)) \X (1..Len(low)) : is_match(p[1], p[2])}}
        \ STOPWORDS

\* variant: the overlap divided by len(a) + len(b)
jaccard_similar_over_sum(a, b) ==
    /\ a # {}
    /\ b # {}
    /\ 100 * Cardinality(a \cap b) >= 55 * (Cardinality(a) + Cardinality(b))

\* _jaccard(a, b) >= 0.55
jaccard_similar(a, b) ==
    /\ a # {}
    /\ b # {}
    /\ 100 * Cardinality(a \cap b) >= 55 * Cardinality(a \cup b)

\* step 1: the first occurrence of every normalized text
RECURSIVE unique_facts(_, _, _)
unique_facts(facts, seen, unique) ==
    IF facts = <<>> THEN unique
    ELSE LET norm == normalize(Head(facts))
         IN  IF norm \in seen
             THEN unique_facts(Tail(facts), seen, unique)
             ELSE unique_facts(Tail(facts), seen \cup {norm},
                               Append(unique, <<Head(facts), norm>>))

\* the worse way round: the shorter of two matching facts is kept
RECURSIVE drop_inner_keep_shorter(_, _, _, _)
drop_inner_keep_shorter(unique, i, j, drop) ==
    IF j > Len(unique) THEN drop
    ELSE IF j \in drop THEN drop_inner_keep_shorter(unique, i, j + 1, drop)
    ELSE LET norm_i == unique[i][2]
             norm_j == unique[j][2]
             is_sub == IsSubstring(norm_i, norm_j) \/ IsSubstring(norm_j, norm_i)
             sim == jaccard_similar(tokenize(norm_i), tokenize(norm_j))
         IN  IF is_sub \/ sim
             THEN IF Len(norm_i) < Len(norm_j)
                  THEN drop_inner_keep_shorter(unique, i, j + 1, drop \cup {j})
                  ELSE drop \cup {i}
             ELSE drop_inner_keep_shorter(unique, i, j + 1, drop)

\* steps 2 + 3, the inner loop over j for one i
RECURSIVE drop_inner(_, _, _, _)
drop_inner(unique, i, j, drop) ==
    IF j > Len(unique) THEN drop
    ELSE IF j \in drop THEN drop_inner(unique, i, j + 1, drop)
    ELSE LET norm_i == unique[i][2]
             norm_j == unique[j][2]
             is_sub == IsSubstring(norm_i, norm_j) \/ IsSubstring(norm_j, norm_i)
             sim == jaccard_similar(tokenize(norm_i), tokenize(norm_j))
         IN  IF is_sub \/ sim
             THEN IF Len(norm_i) >= Len(norm_j)
                  THEN drop_inner(unique, i, j + 1, drop \cup {j})
                  ELSE drop \cup {i}
             ELSE drop_inner(unique, i, j + 1, drop)

\* steps 2 + 3, the outer loop over i
RECURSIVE drop_outer(_, _, _)
drop_outer(unique, i, drop) ==
    IF i > Len(unique) THEN drop
    ELSE IF i \in drop THEN drop_outer(unique, i + 1, drop)
    ELSE drop_outer(unique, i + 1, drop_inner(unique, i, i + 1, drop))

\* the originals of the entries that were not dropped, in order
RECURSIVE kept_facts(_, _, _)
kept_facts(unique, drop, idx) ==
    IF idx > Len(unique) THEN <<>>
    ELSE IF idx \in drop THEN kept_facts(unique, drop, idx + 1)
    ELSE <<unique[idx][1]>> \o kept_facts(unique, drop, idx + 1)

deduplicate_facts(facts) ==
    IF facts = <<>> THEN <<>>
    ELSE LET unique == unique_facts(facts, {}, <<>>)
         IN  kept_facts(unique, drop_outer(unique, 1, {}), 1)

\* ------------------------------------------------------------------
\* parsers/__init__.py : parse_file, nodes/parse_files.py : parse_files
\* ------------------------------------------------------------------
\* what happens to a raw file: its parser returns ("ok"), no parser is
\* registered for its extension ("no_parser"), its parser raises
\* ("parser_raises"), or StructuredFile(...) / store.save_json raises after
\* the parser returned ("save_raises")
RawFileKinds == {"ok", "no_parser", "parser_raises", "save_raises"}

\* parse_file returns a ParseResult and never raises: without a parser, or
\* when the parser raises, the content is empty and a warning is set
parse_file(raw) ==
    IF raw \in {"no_parser", "parser_raises"}
    THEN [content |-> "", warnings |-> 1]
    ELSE [content |-> "content", warnings |-> 0]

\* parse_files: one StructuredFile per raw file; the except branch appends
\* an error entry and a StructuredFile whose parsed_content is the error
parse_files(raw_files) ==
    LET failed(i) == raw_files[i] = "save_raises"
        indices == [i \in 1..Len(raw_files) |-> i]
    IN  [structured_files |->
            [i \in 1..Len(raw_files) |->
                [file_id |-> i,
                 parsed_content |-> IF failed(i) THEN "error"
                                    ELSE parse_file(raw_files[i]).content]],
         errors |-> SelectSeq(indices, failed)]

\* ------------------------------------------------------------------
\* State
\* ------------------------------------------------------------------
VARIABLES
    ckpt,           \* session id -> latest checkpoint of the MemorySaver
    disk,           \* session id -> artifacts under data/sessions/<id>/
    runs,           \* the graph runs (astream calls) in flight
    serial,         \* number of graph runs started so far
    epoch,          \* number of process restarts so far
    born,           \* session id -> epoch of its start, -1 before
    accepted,       \* session id -> resume calls accepted for the checkpoint
    lastCall,       \* the outcome of the latest respond / end call
    service,        \* the answers the reasoning service may give
    fanFiles,       \* structured_files returned by parse_files
    fanSub,         \* file index -> FileDeepDiveState of its sub-workflow
    fanReports,     \* the parent's deep_dive_reports
    fanAt,          \* the stage the parent graph is at
    fanLatest,      \* latest_by_file computed by concatenate_deep_dives
    fanBacklog,     \* question_backlog returned by concatenate_deep_dives
    fanParent,      \* the parent's other keys and the keys the fan-in wrote
    capQuestions,   \* the list handed to _enforce_cap
    capBefore,      \* the same list before the first call
    capMax,         \* settings.MAX_OPEN_QUESTIONS
    capCalls,       \* number of _enforce_cap calls made so far
    rtState,        \* FileDeepDiveState read by should_continue_passes
    rtResult,       \* what the routing function returned, None before the call
    dedupFacts,     \* the list handed to _deduplicate_facts
    dedupResult,    \* the list it returned
    dedupCalls,     \* number of _deduplicate_facts calls made so far
    recBacklog,     \* the list handed to _apply_decisions
    recDecisions,   \* the decision for every question of it, or Omitted
    recMax,         \* settings.MAX_OPEN_QUESTIONS
    recResult,      \* the list _apply_decisions returned
    recCalls,       \* number of _apply_decisions calls made so far
    recPath,        \* the path reconcile_questions took, "none" before it ran
    parseCall       \* parse_files: its raw files and, once called, its result

capVars == <<capQuestions, capBefore, capMax, capCalls>>
rtVars == <<rtState, rtResult>>
fanVars == <<fanFiles, fanSub, fanReports, fanAt, fanLatest, fanBacklog, fanParent>>
sessVars == <<ckpt, disk, runs, serial, epoch, born, accepted, lastCall, service>>
dedupVars == <<dedupFacts, dedupResult, dedupCalls>>
recVars == <<recBacklog, recDecisions, recMax, recResult, recCalls, recPath>>
pureVars == <<dedupVars, recVars, parseCall>>
vars == <<capVars, rtVars, fanVars, sessVars, pureVars>>

\* ------------------------------------------------------------------
\* SpecCap
\* ------------------------------------------------------------------
CapQuestion == [priority : QuestionPriority, status : QuestionStatus]

CapIdle ==
    /\ capQuestions = <<>>
    /\ capBefore = <<>>
    /\ capMax = 0
    /\ capCalls = 0

RouteIdle ==
    /\ rtState = [file_type |-> "py", pass_number |-> 1, max_passes |-> <<>>]
    /\ rtResult = None

DedupIdle ==
    /\ dedupFacts = <<>>
    /\ dedupResult = <<>>
    /\ dedupCalls = 0

RecIdle ==
    /\ recBacklog = <<>>
    /\ recDecisions = <<>>
    /\ recMax = 0
    /\ recResult = <<>>
    /\ recCalls = 0
    /\ recPath = "none"

ParseIdle ==
    parseCall = [raw_files |-> <<>>, result |-> <<>>]

PureIdle ==
    /\ DedupIdle
    /\ RecIdle
    /\ ParseIdle

FanIdle ==
    /\ fanFiles = <<>>
    /\ fanSub = <<>>
    /\ fanReports = <<>>
    /\ fanAt = "idle"
    /\ fanLatest = EmptyMap
    /\ fanBacklog = <<>>
    /\ fanParent = ParentBeforeFanIn

SessionIds == {"s1", "s2"}

\* the session the clients of Spec and SpecInterview work on; the clients of
\* SpecSessions work on every session
OneSession == {"s1"}

NoDisk == [graph_state |-> "none", question_backlog |-> <<>>,
           transcript |-> <<>>, extracted_facts |-> <<>>]

\* priorities global_summarize may give a question
GlobalPriorities == {"P0", "P1"}

\* what the reasoning service may return for one extraction
Extractions ==
    [facts : {<<"f1">>},
     confidence : {"high", "medium", "low"},
     follow_up : BOOLEAN,
     discovered : {<<>>, <<"P0">>}]

\* what the reasoning service may decide for one question
DecisionChoices ==
    {Omitted}
    \cup [action : {"keep_open"}, priority : QuestionPriority, answer : {""}]
    \cup [action : {"merge", "other"}, priority : {"P1"}, answer : {""}]
    \cup [action : {"answer"}, priority : {"P1"}, answer : {"from_files", ""}]

\* the reasoning service of the sessions of Spec: a vague answer with a
\* follow-up or a clear one; a question is kept, answered or not mentioned
SessionService ==
    [extractions |->
        {[facts |-> <<"f1">>, confidence |-> "low", follow_up |-> TRUE,
          discovered |-> <<>>],
         [facts |-> <<"f1">>, confidence |-> "high", follow_up |-> FALSE,
          discovered |-> <<>>]},
     decisions |->
        {[action |-> "keep_open", priority |-> "P0", answer |-> ""],
         [action |-> "answer", priority |-> "P1", answer |-> "from_files"]},
     report_questions |-> {MaxReportQuestions},
     global_questions |-> {<<>>}]

\* the reasoning service of the interviews of SpecInterview
InterviewService ==
    [extractions |-> Extractions, decisions |-> DecisionChoices,
     report_questions |-> 0..MaxReportQuestions,
     global_questions |-> UNION {[1..k -> GlobalPriorities] : k \in 0..MaxGlobalQuestions}]

NoCall == [kind |-> "none", sid |-> "", result |-> "none",
           hadInterrupt |-> FALSE, mutated |-> FALSE]

SessionsIdle ==
    /\ ckpt = [s \in SessionIds |-> NoCkpt]
    /\ disk = [s \in SessionIds |-> NoDisk]
    /\ runs = {}
    /\ serial = 0
    /\ epoch = 0
    /\ born = [s \in SessionIds |-> -1]
    /\ accepted = [s \in SessionIds |-> 0]
    /\ lastCall = NoCall

SessIdle ==
    /\ SessionsIdle
    /\ service = SessionService

InitCap ==
    /\ capQuestions \in SeqsUpTo(CapQuestion, MaxBacklog)
    /\ capBefore = capQuestions
    /\ capMax \in 0..MaxCap
    /\ capCalls = 0
    /\ RouteIdle
    /\ FanIdle
    /\ SessIdle
    /\ PureIdle

EnforceCap ==
    /\ capCalls < 2
    /\ capQuestions' = enforce_cap(capQuestions, capMax)
    /\ capCalls' = capCalls + 1
    /\ UNCHANGED <<capBefore, capMax, rtVars, fanVars, sessVars, pureVars>>

NextCap == EnforceCap

SpecCap == InitCap /\ [][NextCap]_vars

\* ------------------------------------------------------------------
\* SpecRoute
\* ------------------------------------------------------------------
InitRoute ==
    /\ rtState \in [file_type : FileTypes,
                    pass_number : 1..MaxPassNumber,
                    max_passes : {<<>>} \cup {<<n>> : n \in 1..(MaxPassNumber - 1)}]
    /\ rtResult = None
    /\ CapIdle
    /\ FanIdle
    /\ SessIdle
    /\ PureIdle

Route ==
    /\ rtResult = None
    /\ rtResult' = should_continue_passes(rtState)
    /\ UNCHANGED <<rtState, capVars, fanVars, sessVars, pureVars>>

NextRoute == Route

SpecRoute == InitRoute /\ [][NextRoute]_vars

\* ------------------------------------------------------------------
\* SpecDedup: _deduplicate_facts called on a list of facts
\* ------------------------------------------------------------------
InitDedup ==
    /\ dedupFacts \in SeqsUpTo(Facts, MaxFacts)
    /\ dedupResult = <<>>
    /\ dedupCalls = 0
    /\ CapIdle
    /\ RouteIdle
    /\ FanIdle
    /\ SessionsIdle
    /\ service = SessionService
    /\ RecIdle
    /\ ParseIdle

Deduplicate ==
    /\ dedupCalls = 0
    /\ dedupResult' = deduplicate_facts(dedupFacts)
    /\ dedupCalls' = 1
    /\ UNCHANGED <<dedupFacts, recVars, parseCall, capVars, rtVars, fanVars, sessVars>>

NextDedup == Deduplicate

SpecDedup == InitDedup /\ [][NextDedup]_vars

\* ------------------------------------------------------------------
\* SpecReconcile: _apply_decisions called on the backlog reconcile_questions
\* reads, whose questions are all open and unanswered
\* ------------------------------------------------------------------
RecBacklogs(n) ==
    {[i \in 1..n |-> NewQuestion(<<1, i>>, "per_file", priorities[i])] :
        priorities \in [1..n -> QuestionPriority]}

\* a "merge" decision may carry merge_into, here the position in the backlog
\* of the question it names, a position past its end for an unknown id; a
\* decision may state a priority that QuestionPriority does not have, or come
\* without question_id (it then stands where the question has no decision)
InitReconcile ==
    /\ \E n \in 0..MaxRecBacklog :
          /\ recBacklog \in RecBacklogs(n)
          /\ recDecisions \in
                [1..n -> DecisionChoices \cup
                            [action : {"merge"}, priority : {"P1"}, answer : {""},
                             merge_into : 1..(MaxRecBacklog + 1)] \cup
                            [action : {"keep_open", "answer", "other"},
                             priority : {"P9"}, answer : {"from_files"}] \cup
                            [action : {"keep_open"}, priority : {"P1"},
                             answer : {""}, no_question_id : {TRUE}]]
    /\ recMax \in 1..MaxCap
    /\ recResult = <<>>
    /\ recCalls = 0
    /\ recPath = "none"
    /\ CapIdle
    /\ RouteIdle
    /\ FanIdle
    /\ SessIdle
    /\ DedupIdle
    /\ ParseIdle

ApplyDecisions ==
    /\ recCalls = 0
    /\ recPath = "none"
    /\ IF apply_decisions_raises(recDecisions)
       THEN /\ recResult' = <<>>
            /\ recCalls' = 0
            /\ recPath' = "raised"
       ELSE /\ recResult' = apply_decisions_capped(recBacklog, recDecisions, recMax)
            /\ recCalls' = 1
            /\ recPath' = recPath
    /\ UNCHANGED <<recBacklog, recDecisions, recMax, dedupVars, parseCall,
                   capVars, rtVars, fanVars, sessVars>>

\* reconcile_questions, lines 205-237, with settings.MAX_OPEN_QUESTIONS = recMax;
\* call_llm_json raises a ValueError, or returns a response with no decision,
\* or one with decisions; _apply_decisions is called outside the try block, so
\* what it raises leaves the node
ReconcileNode ==
    /\ recCalls = 0
    /\ recPath = "none"
    /\ \E response \in {"raises", "no_decisions", "decisions"} :
          IF recBacklog = <<>>
          THEN /\ recResult' = <<>>
               /\ recCalls' = 0
               /\ recPath' = "empty_backlog"
          ELSE IF response \in {"raises", "no_decisions"}
          THEN /\ recResult' = enforce_cap(recBacklog, recMax)
               /\ recCalls' = 0
               /\ recPath' = "cap_only"
          ELSE IF apply_decisions_raises(recDecisions)
          THEN /\ recResult' = <<>>
               /\ recCalls' = 0
               /\ recPath' = "raised"
          ELSE /\ recResult' = apply_decisions_capped(recBacklog, recDecisions, recMax)
               /\ recCalls' = 1
               /\ recPath' = "decisions"
    /\ UNCHANGED <<recBacklog, recDecisions, recMax, dedupVars, parseCall,
                   capVars, rtVars, fanVars, sessVars>>

NextReconcile ==
    \/ ApplyDecisions
    \/ ReconcileNode

SpecReconcile == InitReconcile /\ [][NextReconcile]_vars

\* ------------------------------------------------------------------
\* SpecParse: parse_files called on the raw files of a session
\* ------------------------------------------------------------------
InitParse ==
    /\ \E raw_files \in SeqsUpTo(RawFileKinds, MaxRawFiles) :
          parseCall = [raw_files |-> raw_files, result |-> <<>>]
    /\ CapIdle
    /\ RouteIdle
    /\ FanIdle
    /\ SessIdle
    /\ DedupIdle
    /\ RecIdle

ParseRawFiles ==
    /\ parseCall.result = <<>>
    /\ parseCall' = [parseCall EXCEPT !.result = <<parse_files(parseCall.raw_files)>>]
    /\ UNCHANGED <<dedupVars, recVars, capVars, rtVars, fanVars, sessVars>>

SpecParse == InitParse /\ [][ParseRawFiles]_vars

\* ------------------------------------------------------------------
\* SpecFan: parse_files -> file_deep_dive (one per file) -> collect ->
\* concatenate_deep_dives
\* ------------------------------------------------------------------
\* a spreadsheet (three passes) or any other file (two passes)
FanFileTypes == {"xlsx", "py"}

StructuredFiles(n) == [1..n -> FanFileTypes]

InitFan ==
    /\ \E n \in 0..MaxFiles : \E types \in StructuredFiles(n) :
          fanFiles = [i \in 1..n |-> [file_id |-> i, file_type |-> types[i]]]
    /\ fanSub = <<>>
    /\ fanReports = <<>>
    /\ fanAt = "parse_files"
    /\ fanLatest = EmptyMap
    /\ fanBacklog = <<>>
    /\ fanParent = ParentBeforeFanIn
    /\ CapIdle
    /\ RouteIdle
    /\ SessIdle
    /\ PureIdle

\* _fan_out_deep_dives: one Send per structured file; no file, no next stage
FanOut ==
    /\ fanAt = "parse_files"
    /\ fanSub' = [i \in 1..Len(fanFiles) |-> prepare_deep_dive_input(fanFiles[i], fanParent.state.session_id)]
    /\ fanAt' = IF Len(fanFiles) = 0 THEN "END" ELSE "file_deep_dive"
    /\ UNCHANGED <<fanFiles, fanReports, fanLatest, fanBacklog, fanParent, capVars, rtVars, sessVars, pureVars>>

\* one pass of one file's sub-workflow; the reasoning service answers
RunPass(f) ==
    /\ fanAt = "file_deep_dive"
    /\ fanSub[f].at = "run_pass"
    /\ \E nq \in 0..MaxReportQuestions :
          fanSub' = [fanSub EXCEPT ![f] = run_deep_dive_pass(fanSub[f], nq)]
    /\ UNCHANGED <<fanFiles, fanReports, fanAt, fanLatest, fanBacklog, fanParent, capVars, rtVars, sessVars, pureVars>>

\* call_llm_json raises inside a pass: the error leaves the graph run
PassFails(f) ==
    /\ fanAt = "file_deep_dive"
    /\ fanSub[f].at = "run_pass"
    /\ fanAt' = "failed"
    /\ UNCHANGED <<fanFiles, fanSub, fanReports, fanLatest, fanBacklog, fanParent, capVars, rtVars, sessVars, pureVars>>

\* the step ends when every sub-workflow is at END; the outputs are then
\* merged into the parent by the reducer of deep_dive_reports
FanIn ==
    /\ fanAt = "file_deep_dive"
    /\ \A f \in DOMAIN fanSub : fanSub[f].at = "END"
    /\ \E order \in MergeOrders(DOMAIN fanSub) :
          /\ fanReports' = MergeOutputs(fanReports, fanSub, order)
          /\ fanParent' = MergeParent(fanParent, fanSub, order)
    /\ fanAt' = "collect_deep_dives"
    /\ UNCHANGED <<fanFiles, fanSub, fanLatest, fanBacklog, capVars, rtVars, sessVars, pureVars>>

\* _collect_deep_dives
Collect ==
    /\ fanAt = "collect_deep_dives"
    /\ fanAt' = "concatenate_deep_dives"
    /\ UNCHANGED <<fanFiles, fanSub, fanReports, fanLatest, fanBacklog, fanParent, capVars, rtVars, sessVars, pureVars>>

\* concatenate_deep_dives
Concatenate ==
    /\ fanAt = "concatenate_deep_dives"
    /\ fanLatest' = latest_by_file(fanReports, EmptyMap)
    /\ fanBacklog' = all_questions(latest_by_file(fanReports, EmptyMap),
                                   dict_keys(fanReports, {}))
    /\ fanAt' = "global_summarize"
    /\ UNCHANGED <<fanFiles, fanSub, fanReports, fanParent, capVars, rtVars, sessVars, pureVars>>

NextFan ==
    \/ FanOut
    \/ \E f \in DOMAIN fanSub : RunPass(f)
    \/ \E f \in DOMAIN fanSub : PassFails(f)
    \/ FanIn
    \/ Collect
    \/ Concatenate

SpecFan == InitFan /\ [][NextFan]_vars

\* ------------------------------------------------------------------
\* SpecPass: the sub-workflow of one file, DEEP_DIVE_PASSES_XLSX and
\* DEEP_DIVE_PASSES_DEFAULT being overridden in .env by max_passes
\* ------------------------------------------------------------------
InitPass ==
    /\ \E file_type \in FanFileTypes : \E max_passes \in 1..(MaxPassNumber - 1) :
          /\ fanFiles = <<[file_id |-> 1, file_type |-> file_type]>>
          /\ fanSub = <<[prepare_deep_dive_input(fanFiles[1], "s1")
                           EXCEPT !.max_passes = <<max_passes>>]>>
    /\ fanReports = <<>>
    /\ fanAt = "file_deep_dive"
    /\ fanLatest = EmptyMap
    /\ fanBacklog = <<>>
    /\ fanParent = ParentBeforeFanIn
    /\ CapIdle
    /\ RouteIdle
    /\ SessIdle
    /\ PureIdle

SpecPass == InitPass /\ [][\E f \in DOMAIN fanSub : RunPass(f)]_vars

\* ------------------------------------------------------------------
\* Spec: sessions served by routes/offboarding.py and routes/interview.py
\* on the graph of graphs/registry.py
\* ------------------------------------------------------------------
\* texts a client may post to /respond
RespondTexts == {"a", EndSignal}

\* the local extraction of interview_loop before the first turn of a run
NoExtraction ==
    [facts |-> <<>>, confidence |-> "", follow_up |-> FALSE, discovered |-> <<>>]

\* a graph run: one astream call on the thread of session sid
NewRun(id, sid, kind, cp, resume) ==
    [id |-> id, sid |-> sid, kind |-> kind, at |-> cp.next, phase |-> "select",
     base |-> cp.cid, vals |-> cp.values,
     round_num |-> Len(cp.values.interview_transcript),
     asked |-> 0, asked_id |-> <<0, 0>>, response |-> "",
     extraction |-> NoExtraction, resume |-> resume]

\* the checkpoint written when the stage r.at has completed
CheckpointOf(r, newvals, nxt) ==
    [exists |-> TRUE, cid |-> <<r.id, r.at>>, values |-> newvals,
     next |-> nxt, interrupt |-> <<>>, resume |-> <<>>]

\* the run after its stage r.at has completed
Advance(r, newvals, nxt) ==
    [r EXCEPT !.at = nxt, !.vals = newvals, !.base = <<r.id, r.at>>,
              !.resume = IF nxt = "interview_loop" THEN @ ELSE <<>>]

\* graph_state.json as the caller of astream leaves it when the run is over
\* (outcome: "stopped" at an interrupt or at END, "raised" on an exception)
Epilogue(kind, d, outcome, cp) ==
    IF kind = "start"
    THEN [d EXCEPT !.graph_state =
            IF outcome = "raised" THEN "error"
            ELSE IF cp.exists /\ cp.next # "" THEN "interview_ready"
            ELSE "complete"]
    ELSE IF outcome = "raised" THEN d
    ELSE IF kind = "respond"
    THEN [d EXCEPT !.graph_state =
            IF HasPending(cp) THEN "interview_active" ELSE "complete"]
    ELSE [d EXCEPT !.graph_state = "complete"]

\* _run_pipeline rewrites graph_state.json for every chunk of the stream
Progress(kind, d) ==
    IF kind = "start" THEN [d EXCEPT !.graph_state = "running"] ELSE d

\* a checkpointer that keeps one thread for all sessions
StageCommit_one_thread(r, newvals, nxt, d) ==
    /\ ckpt' = [s \in SessionIds |-> CheckpointOf(r, newvals, nxt)]
    /\ accepted' = [accepted EXCEPT ![r.sid] = 0]
    /\ IF nxt = ""
       THEN /\ runs' = runs \ {r}
            /\ disk' = [disk EXCEPT ![r.sid] =
                          Epilogue(r.kind, Progress(r.kind, d), "stopped",
                                   CheckpointOf(r, newvals, nxt))]
       ELSE /\ runs' = (runs \ {r}) \cup {Advance(r, newvals, nxt)}
            /\ disk' = [disk EXCEPT ![r.sid] = Progress(r.kind, d)]

\* a stage completes: checkpoint, next stage, progress record
StageCommit(r, newvals, nxt, d) ==
    /\ ckpt' = [ckpt EXCEPT ![r.sid] = CheckpointOf(r, newvals, nxt)]
    /\ accepted' = [accepted EXCEPT ![r.sid] = 0]
    /\ IF nxt = ""
       THEN /\ runs' = runs \ {r}
            /\ disk' = [disk EXCEPT ![r.sid] =
                          Epilogue(r.kind, Progress(r.kind, d), "stopped",
                                   CheckpointOf(r, newvals, nxt))]
       ELSE /\ runs' = (runs \ {r}) \cup {Advance(r, newvals, nxt)}
            /\ disk' = [disk EXCEPT ![r.sid] = Progress(r.kind, d)]

\* an exception leaves astream: no checkpoint is written
RunRaises(r) ==
    /\ runs' = runs \ {r}
    /\ disk' = [disk EXCEPT ![r.sid] = Epilogue(r.kind, @, "raised", ckpt[r.sid])]
    /\ UNCHANGED <<ckpt, accepted>>

SessOther == <<service, capVars, rtVars, fanVars, pureVars>>

InitSess ==
    /\ SessIdle
    /\ PureIdle
    /\ CapIdle
    /\ RouteIdle
    /\ FanIdle

\* start_offboarding and the first checkpoint of _run_pipeline
Start(s) ==
    /\ disk[s].graph_state = "none"
    /\ serial < MaxRuns
    /\ LET cp == [exists |-> TRUE, cid |-> <<serial + 1, "__start__">>,
                  values |-> InitialValues, next |-> "parse_files",
                  interrupt |-> <<>>, resume |-> <<>>]
       IN  /\ ckpt' = [ckpt EXCEPT ![s] = cp]
           /\ runs' = runs \cup {NewRun(serial + 1, s, "start", cp, <<>>)}
    /\ disk' = [disk EXCEPT ![s].graph_state = "started"]
    /\ serial' = serial + 1
    /\ born' = [born EXCEPT ![s] = epoch]
    /\ UNCHANGED <<epoch, accepted, lastCall, SessOther>>

\* parse_files, then _fan_out_deep_dives: no file, no Send, the graph ends
ParseFiles(r) ==
    /\ r.at = "parse_files"
    /\ \E n \in 0..MaxSessionFiles :
          LET files == [i \in 1..n |-> [file_id |-> i, file_type |-> "py"]]
              newvals == [r.vals EXCEPT !.structured_files = files,
                                        !.status = "parsed"]
          IN  StageCommit(r, newvals, IF n = 0 THEN "" ELSE "file_deep_dive",
                          disk[r.sid])
    /\ UNCHANGED <<serial, epoch, born, lastCall, SessOther>>

\* every report of one file's sub-workflow, each with nq questions
RECURSIVE SubWorkflowReports(_, _)
SubWorkflowReports(state, nq) ==
    IF state.at = "END" THEN state.deep_dive_reports
    ELSE SubWorkflowReports(run_deep_dive_pass(state, nq), nq)

\* the step of the file_deep_dive sub-workflows, merged by the reducer
FileDeepDive(r) ==
    /\ r.at = "file_deep_dive"
    /\ \E nqs \in [1..Len(r.vals.structured_files) -> service.report_questions] :
          LET files == r.vals.structured_files
              sub == [f \in 1..Len(files) |->
                         [deep_dive_reports |->
                             SubWorkflowReports(prepare_deep_dive_input(files[f], r.sid), nqs[f]),
                          at |-> "END"]]
              reports == MergeOutputs(r.vals.deep_dive_reports, sub,
                                      [f \in 1..Len(files) |-> f])
          IN  StageCommit(r, [r.vals EXCEPT !.deep_dive_reports = reports],
                          "collect_deep_dives", disk[r.sid])
    /\ UNCHANGED <<serial, epoch, born, lastCall, SessOther>>

\* _collect_deep_dives
CollectDeepDives(r) ==
    /\ r.at = "collect_deep_dives"
    /\ StageCommit(r, [r.vals EXCEPT !.status = "deep_dives_complete"],
                   "concatenate_deep_dives", disk[r.sid])
    /\ UNCHANGED <<serial, epoch, born, lastCall, SessOther>>

\* concatenate_deep_dives
ConcatenateDeepDives(r) ==
    /\ r.at = "concatenate_deep_dives"
    /\ LET latest == latest_by_file(r.vals.deep_dive_reports, EmptyMap)
           newvals == [r.vals EXCEPT
                         !.question_backlog = SeedQuestions(latest, 1, r.id, <<>>),
                         !.status = "concatenated"]
       IN  StageCommit(r, newvals, "global_summarize", disk[r.sid])
    /\ UNCHANGED <<serial, epoch, born, lastCall, SessOther>>

\* global_summarize
GlobalSummarize(r) ==
    /\ r.at = "global_summarize"
    /\ \E priorities \in service.global_questions :
          LET newvals == [r.vals EXCEPT
                            !.question_backlog =
                                AppendGlobalQuestions(@, priorities, r.id),
                            !.status = "summarized"]
          IN  StageCommit(r, newvals, "reconcile_questions", disk[r.sid])
    /\ UNCHANGED <<serial, epoch, born, lastCall, SessOther>>

\* reconcile_questions: decisions applied, or the cap alone when the call
\* failed with a ValueError or returned no decision
ReconcileQuestions(r) ==
    /\ r.at = "reconcile_questions"
    /\ LET backlog == r.vals.question_backlog
       IN  \E reconciled \in
                IF backlog = <<>> THEN {<<>>}
                ELSE {enforce_cap(backlog, MAX_OPEN_QUESTIONS)}
                     \cup {apply_decisions(backlog, decisions) :
                              decisions \in [1..Len(backlog) -> service.decisions]} :
              StageCommit(r,
                  [r.vals EXCEPT !.question_backlog = reconciled,
                                 !.status = "questions_ready"],
                  "interview_loop",
                  [disk[r.sid] EXCEPT !.question_backlog = <<reconciled>>])
    /\ UNCHANGED <<serial, epoch, born, lastCall, SessOther>>

\* interrupt() with no resume value left: the run stops, the payload and the
\* resume values seen so far are kept with the checkpoint the run started
\* from (writes to a checkpoint that is no longer the latest are not seen)
Suspend(r, asked_id) ==
    LET payload == [question_id |-> asked_id, round |-> r.round_num + 1]
        cp == IF ckpt[r.sid].exists /\ ckpt[r.sid].cid = r.base
              THEN [ckpt[r.sid] EXCEPT !.interrupt = <<payload>>,
                                       !.resume = r.resume]
              ELSE ckpt[r.sid]
    IN  /\ ckpt' = [ckpt EXCEPT ![r.sid] = cp]
        /\ accepted' = [accepted EXCEPT ![r.sid] =
                           IF cp = ckpt[r.sid] THEN @ ELSE 0]
        /\ runs' = runs \ {r}
        /\ disk' = [disk EXCEPT ![r.sid] = Epilogue(r.kind, @, "stopped", cp)]

\* lines 323-347: interrupt() gives back the resume value of this round
Resumed(r, asked, asked_id) ==
    LET response == r.resume[r.round_num + 1]
    IN  /\ runs' = (runs \ {r}) \cup
              {IF response = EndSignal
               THEN [r EXCEPT !.phase = "summary",
                              !.vals.question_backlog = DeprioritizeOpen(@)]
               ELSE [r EXCEPT !.phase = "extract", !.asked = asked,
                              !.asked_id = asked_id, !.response = response]}
        /\ UNCHANGED <<ckpt, accepted, disk>>

AskQuestion(r, asked, asked_id) ==
    IF r.round_num < Len(r.resume)
    THEN Resumed(r, asked, asked_id)
    ELSE Suspend(r, asked_id)

\* variant: the while loop admits one round more than MAX_INTERVIEW_ROUNDS
InterviewAsk_one_more_round(r) ==
    /\ r.at = "interview_loop"
    /\ r.phase = "select"
    /\ LET open_qs == get_open_questions(r.vals.question_backlog)
       IN  IF r.round_num > MAX_INTERVIEW_ROUNDS
           THEN /\ runs' = (runs \ {r}) \cup {[r EXCEPT !.phase = "summary"]}
                /\ UNCHANGED <<ckpt, accepted, disk>>
           ELSE IF DEMO_MODE /\ r.round_num < DemoQuestionCount
           THEN AskQuestion(r, 0, DemoQuestionId(r.round_num))
           ELSE IF open_qs = <<>>
           THEN /\ runs' = (runs \ {r}) \cup {[r EXCEPT !.phase = "summary"]}
                /\ UNCHANGED <<ckpt, accepted, disk>>
           ELSE \E i \in select_next_question(open_qs) :
                   AskQuestion(r, i, r.vals.question_backlog[i].id)
    /\ UNCHANGED <<serial, epoch, born, lastCall, SessOther>>

\* interview_loop, lines 273-332: the top of the while loop up to interrupt()
InterviewAsk(r) ==
    /\ r.at = "interview_loop"
    /\ r.phase = "select"
    /\ LET open_qs == get_open_questions(r.vals.question_backlog)
       IN  IF r.round_num >= MAX_INTERVIEW_ROUNDS
           THEN /\ runs' = (runs \ {r}) \cup {[r EXCEPT !.phase = "summary"]}
                /\ UNCHANGED <<ckpt, accepted, disk>>
           ELSE IF DEMO_MODE /\ r.round_num < DemoQuestionCount
           THEN AskQuestion(r, 0, DemoQuestionId(r.round_num))
           ELSE IF open_qs = <<>>
           THEN /\ runs' = (runs \ {r}) \cup {[r EXCEPT !.phase = "summary"]}
                /\ UNCHANGED <<ckpt, accepted, disk>>
           ELSE \E i \in select_next_question(open_qs) :
                   AskQuestion(r, i, r.vals.question_backlog[i].id)
    /\ UNCHANGED <<serial, epoch, born, lastCall, SessOther>>

\* interview_loop, lines 343-398: extraction and the bookkeeping of the turn
InterviewExtract(r) ==
    /\ r.at = "interview_loop"
    /\ r.phase = "extract"
    /\ \E ex \in service.extractions :
          LET newvals == ExtractTurn(r.vals, r.round_num, r.asked, r.asked_id,
                                     r.response, ex, r.id)
          IN  /\ runs' = (runs \ {r}) \cup
                    {[r EXCEPT !.vals = newvals, !.round_num = @ + 1,
                               !.extraction = ex, !.phase = "select"]}
              /\ disk' = [disk EXCEPT
                    ![r.sid].transcript = <<newvals.interview_transcript>>,
                    ![r.sid].extracted_facts = <<newvals.extracted_facts>>,
                    ![r.sid].question_backlog = <<newvals.question_backlog>>]
    /\ UNCHANGED <<ckpt, accepted, serial, epoch, born, lastCall, SessOther>>

\* interview_loop, lines 400-416: the node returns. facts is the list object
\* read from the state at entry and extended in place, so the reducer of
\* extracted_facts is given the same list on both sides.
InterviewSummary(r) ==
    /\ r.at = "interview_loop"
    /\ r.phase = "summary"
    /\ LET newvals == [r.vals EXCEPT
                         !.extracted_facts = append_list(@, @),
                         !.status = "interview_complete"]
       IN  StageCommit(r, newvals, "final", disk[r.sid])
    /\ UNCHANGED <<serial, epoch, born, lastCall, SessOther>>

\* the keys returned by the two stages that follow interview_loop
\* (generate_package.py 151-155, build_qa_context.py 90-94)
FinalWrites ==
    [generate_onboarding_package |->
        [onboarding_package |-> "package", status |-> "package_generated",
         current_step |-> "generate_onboarding_package"],
     build_qa_context |->
        [qa_system_prompt |-> "prompt", status |-> "complete",
         current_step |-> "build_qa_context"]]

\* the keys of OffboardingState without a reducer (models/state.py: every key
\* but deep_dive_reports, extracted_facts, errors) that more than one of the
\* stages of a step writes
update_conflicts(writes) ==
    {k \in UNION {DOMAIN writes[n] : n \in DOMAIN writes} :
        /\ k \notin {"deep_dive_reports", "extracted_facts", "errors"}
        /\ Cardinality({n \in DOMAIN writes : k \in DOMAIN writes[n]}) > 1}

\* generate_onboarding_package and build_qa_context run in the same step; a
\* key without a reducer written by both makes the graph reject the step
\* with InvalidUpdateError, and no checkpoint is written; otherwise the
\* updates are merged and the run is at END
FinalStages(r) ==
    /\ r.at = "final"
    /\ IF update_conflicts(FinalWrites) # {}
       THEN RunRaises(r)
       ELSE \E last \in DOMAIN FinalWrites :
               StageCommit(r, [r.vals EXCEPT !.status = FinalWrites[last].status],
                           "", disk[r.sid])
    /\ UNCHANGED <<serial, epoch, born, lastCall, SessOther>>

\* call_llm / call_llm_json raises in a stage that does not catch it;
\* reconcile_questions catches ValueError and KeyError only, and calls the
\* reasoning service only for a backlog that is not empty
StageFails(r) ==
    /\ \/ r.at \in {"file_deep_dive", "global_summarize"}
       \/ r.at = "reconcile_questions" /\ r.vals.question_backlog # <<>>
       \/ r.at = "interview_loop" /\ r.phase = "extract"
    /\ RunRaises(r)
    /\ UNCHANGED <<serial, epoch, born, lastCall, SessOther>>

\* respond_to_question
Respond(s, text) ==
    LET cp == ckpt[s]
    IN  IF ~HasPending(cp)
        THEN /\ lastCall' = [kind |-> "respond", sid |-> s, result |-> "error_400",
                             hadInterrupt |-> FALSE, mutated |-> FALSE]
             /\ UNCHANGED <<ckpt, disk, runs, serial, epoch, born, accepted, SessOther>>
        ELSE /\ serial < MaxRuns
             /\ Cardinality(runs) < MaxInFlight
             /\ runs' = runs \cup
                   {NewRun(serial + 1, s, "respond", cp,
                           IF cp.next = "interview_loop"
                           THEN cp.resume \o <<text>> ELSE <<>>)}
             /\ serial' = serial + 1
             /\ accepted' = [accepted EXCEPT ![s] = @ + 1]
             /\ lastCall' = [kind |-> "respond", sid |-> s, result |-> "accepted",
                             hadInterrupt |-> cp.interrupt # <<>>,
                             mutated |-> FALSE]
             /\ UNCHANGED <<ckpt, disk, epoch, born, SessOther>>

\* lines 241-246: open questions of question_backlog.json become "deferred"
DeferOpen(file) ==
    IF file = <<>> THEN file
    ELSE <<[i \in 1..Len(file[1]) |->
              IF file[1][i].status = "open"
              THEN [file[1][i] EXCEPT !.status = "deferred"]
              ELSE file[1][i]]>>

\* end_interview
EndInterview(s) ==
    LET cp == ckpt[s]
    IN  IF ~HasPending(cp)
        THEN /\ lastCall' = [kind |-> "end", sid |-> s, result |-> "already_complete",
                             hadInterrupt |-> FALSE, mutated |-> FALSE]
             /\ UNCHANGED <<ckpt, disk, runs, serial, epoch, born, accepted, SessOther>>
        ELSE /\ serial < MaxRuns
             /\ Cardinality(runs) < MaxInFlight
             /\ disk' = [disk EXCEPT ![s].question_backlog = DeferOpen(@)]
             /\ runs' = runs \cup
                   {NewRun(serial + 1, s, "end", cp,
                           IF cp.next = "interview_loop"
                           THEN cp.resume \o <<EndSignal>> ELSE <<>>)}
             /\ serial' = serial + 1
             /\ accepted' = [accepted EXCEPT ![s] = @ + 1]
             /\ lastCall' = [kind |-> "end", sid |-> s, result |-> "accepted",
                             hadInterrupt |-> cp.interrupt # <<>>,
                             mutated |-> disk' # disk]
             /\ UNCHANGED <<ckpt, epoch, born, SessOther>>

\* the server process is stopped and started again: tasks and the
\* checkpointer live in its memory, data/sessions/ is on disk
Restart ==
    /\ epoch < MaxRestarts
    /\ epoch' = epoch + 1
    /\ ckpt' = CheckpointerAfterRestart(ckpt)
    /\ runs' = {}
    /\ accepted' = [s \in SessionIds |-> 0]
    /\ lastCall' = NoCall
    /\ UNCHANGED <<disk, serial, born, SessOther>>

Next ==
    \/ \E s \in OneSession : Start(s)
    \/ \E r \in runs : ParseFiles(r)
    \/ \E r \in runs : FileDeepDive(r)
    \/ \E r \in runs : CollectDeepDives(r)
    \/ \E r \in runs : ConcatenateDeepDives(r)
    \/ \E r \in runs : GlobalSummarize(r)
    \/ \E r \in runs : ReconcileQuestions(r)
    \/ \E r \in runs : InterviewAsk(r)
    \/ \E r \in runs : InterviewExtract(r)
    \/ \E r \in runs : InterviewSummary(r)
    \/ \E r \in runs : FinalStages(r)
    \/ \E r \in runs : StageFails(r)
    \/ \E s \in OneSession : \E text \in RespondTexts : Respond(s, text)
    \/ \E s \in OneSession : EndInterview(s)
    \/ Restart

Spec == InitSess /\ [][Next]_vars

\* ------------------------------------------------------------------
\* SpecSessions: two sessions served by the same process, in any interleaving
\* ------------------------------------------------------------------
\* the client of a session calls once the run of its last call is over
RespondInTurn(s, text) ==
    /\ \A r \in runs : r.sid # s
    /\ Respond(s, text)

EndInTurn(s) ==
    /\ \A r \in runs : r.sid # s
    /\ EndInterview(s)

NextSessions ==
    \/ \E s \in SessionIds : Start(s)
    \/ \E r \in runs : ParseFiles(r)
    \/ \E r \in runs : FileDeepDive(r)
    \/ \E r \in runs : CollectDeepDives(r)
    \/ \E r \in runs : ConcatenateDeepDives(r)
    \/ \E r \in runs : GlobalSummarize(r)
    \/ \E r \in runs : ReconcileQuestions(r)
    \/ \E r \in runs : InterviewAsk(r)
    \/ \E r \in runs : InterviewExtract(r)
    \/ \E r \in runs : InterviewSummary(r)
    \/ \E r \in runs : FinalStages(r)
    \/ \E r \in runs : StageFails(r)
    \/ \E s \in SessionIds : \E text \in RespondTexts : RespondInTurn(s, text)
    \/ \E s \in SessionIds : EndInTurn(s)

SpecSessions == InitSess /\ [][NextSessions]_vars

\* ------------------------------------------------------------------
\* SpecInterview: one session driven by the interview page, which posts an
\* answer or ends the interview only once the question has been shown
\* ------------------------------------------------------------------
InitInterview ==
    /\ SessionsIdle
    /\ service = InterviewService
    /\ PureIdle
    /\ CapIdle
    /\ RouteIdle
    /\ FanIdle

Answer(s, text) ==
    /\ runs = {}
    /\ Respond(s, text)

Finish(s) ==
    /\ runs = {}
    /\ EndInterview(s)

NextInterview ==
    \/ \E s \in OneSession : Start(s)
    \/ \E r \in runs : ParseFiles(r)
    \/ \E r \in runs : FileDeepDive(r)
    \/ \E r \in runs : CollectDeepDives(r)
    \/ \E r \in runs : ConcatenateDeepDives(r)
    \/ \E r \in runs : GlobalSummarize(r)
    \/ \E r \in runs : ReconcileQuestions(r)
    \/ \E r \in runs : InterviewAsk(r)
    \/ \E r \in runs : InterviewExtract(r)
    \/ \E r \in runs : InterviewSummary(r)
    \/ \E r \in runs : FinalStages(r)
    \/ \E r \in runs : StageFails(r)
    \/ \E s \in OneSession : \E text \in RespondTexts : Answer(s, text)
    \/ \E s \in OneSession : Finish(s)

SpecInterview == InitInterview /\ [][NextInterview]_vars

\* The interview with a reasoning service that answers every call, with any
\* extraction, and a client that answers every question: the stages never
\* raise, and a step that can be taken is eventually taken (the event loop
\* runs a started task to its next await, the client sends its next
\* response).
InitAnswered ==
    /\ SessionsIdle
    /\ service = [SessionService EXCEPT !.extractions = Extractions]
    /\ PureIdle
    /\ CapIdle
    /\ RouteIdle
    /\ FanIdle

NextAnswered ==
    \/ \E s \in OneSession : Start(s)
    \/ \E r \in runs : ParseFiles(r)
    \/ \E r \in runs : FileDeepDive(r)
    \/ \E r \in runs : CollectDeepDives(r)
    \/ \E r \in runs : ConcatenateDeepDives(r)
    \/ \E r \in runs : GlobalSummarize(r)
    \/ \E r \in runs : ReconcileQuestions(r)
    \/ \E r \in runs : InterviewAsk(r)
    \/ \E r \in runs : InterviewExtract(r)
    \/ \E r \in runs : InterviewSummary(r)
    \/ \E r \in runs : FinalStages(r)
    \/ \E s \in OneSession : \E text \in RespondTexts : Answer(s, text)
    \/ \E s \in OneSession : Finish(s)

SpecAnswered == InitAnswered /\ [][NextAnswered]_vars /\ WF_vars(NextAnswered)

\* ------------------------------------------------------------------
\* Properties of the fan-out / fan-in (SpecFan)
\* ------------------------------------------------------------------
FanPastFanIn == fanAt \in {"collect_deep_dives", "concatenate_deep_dives", "global_summarize"}

FanPasses(f) == IF fanFiles[f].file_type \in {"xlsx", "xls"} THEN 3 ELSE 2

RECURSIVE FanSum(_)
FanSum(n) == IF n = 0 THEN 0 ELSE FanPasses(n) + FanSum(n - 1)

\* C4: the stage after the fan-in starts only when every sub-workflow has
\* terminated; deep_dive_reports then holds, for each of the N files, its p
\* reports (passes 1..p) once each, N*p in all when every file makes p passes;
\* latest_by_file holds for every file the report of its highest pass,
\* whatever the order in which the outputs were merged.
C4_FanInComplete ==
    /\ FanPastFanIn =>
          /\ \A f \in DOMAIN fanSub : fanSub[f].at = "END"
          /\ Len(fanReports) = FanSum(Len(fanFiles))
          /\ \A n \in {2, 3} :
                (\A f \in 1..Len(fanFiles) : FanPasses(f) = n)
                    => Len(fanReports) = Len(fanFiles) * n
          /\ \A f \in 1..Len(fanFiles) : \A k \in 1..FanPasses(f) :
                Cardinality({i \in 1..Len(fanReports) :
                    fanReports[i].file_id = f /\ fanReports[i].pass_number = k}) = 1
    /\ fanAt = "global_summarize" =>
          /\ DOMAIN fanLatest = 1..Len(fanFiles)
          /\ \A f \in DOMAIN fanLatest :
                /\ fanLatest[f].file_id = f
                /\ fanLatest[f].pass_number = FanPasses(f)
                /\ \A i \in 1..Len(fanReports) :
                      fanReports[i].file_id = f
                          => fanReports[i].pass_number <= fanLatest[f].pass_number

\* two files whose outputs were merged against the order of the fan-out
C4_Witness ==
    /\ fanAt = "global_summarize"
    /\ Len(fanFiles) >= 2
    /\ fanReports[1].file_id = 2
    /\ \A f \in 1..Len(fanFiles) : FanPasses(f) = 2
    /\ Len(fanReports) = 2 * Len(fanFiles)

\* ------------------------------------------------------------------
\* Properties of _enforce_cap (SpecCap)
\* ------------------------------------------------------------------
CapOpenCount(questions) ==
    Cardinality({i \in 1..Len(questions) : questions[i].status = "open"})

\* C5: after _enforce_cap at most MAX_OPEN_QUESTIONS questions are open, and
\* every question that was not open before the call keeps its status.
C5_CapLeavesAtMostMaxOpen ==
    capCalls >= 1 =>
        /\ Len(capQuestions) = Len(capBefore)
        /\ CapOpenCount(capQuestions) <= capMax
        /\ \A i \in 1..Len(capBefore) :
              capBefore[i].status # "open" =>
                  capQuestions[i].status = capBefore[i].status

C5_Witness ==
    /\ capCalls >= 1
    /\ CapOpenCount(capBefore) > capMax
    /\ \E i \in 1..Len(capBefore) : capBefore[i].status \notin {"open", "deprioritized"}
    /\ \E i \in 1..Len(capBefore) :
          capBefore[i].status = "open" /\ capQuestions[i].status = "deprioritized"

\* C6: _enforce_cap is idempotent: the second call with the same cap changes
\* no question's status or priority.
C6_CapIdempotent ==
    [][(capCalls = 1 /\ capCalls' = 2) => capQuestions' = capQuestions]_vars

C6_Witness ==
    /\ capCalls = 2
    /\ capQuestions # capBefore

\* position of open question i in the order (priority, insertion index)
CapRank(questions, i) ==
    Cardinality({j \in 1..Len(questions) :
        /\ questions[j].status = "open"
        /\ \/ priority_order(questions[j].priority) < priority_order(questions[i].priority)
           \/ /\ questions[j].priority = questions[i].priority
              /\ j < i})

\* C7: _enforce_cap keeps open exactly the first MAX_OPEN_QUESTIONS open
\* questions in the order P0 < P1 < P2 (ties by insertion order), sets every
\* other open question to deprioritized and changes no priority; a question
\* is deprioritized only if every question kept open has an equal or higher
\* priority.
C7_CapKeepsFirstByPriority ==
    capCalls >= 1 =>
        /\ Len(capQuestions) = Len(capBefore)
        /\ \A i \in 1..Len(capBefore) :
              /\ capQuestions[i].priority = capBefore[i].priority
              /\ capBefore[i].status = "open" =>
                    capQuestions[i].status =
                        IF CapRank(capBefore, i) < capMax THEN "open" ELSE "deprioritized"
        /\ \A i, k \in 1..Len(capBefore) :
              ( /\ capBefore[i].status = "open"
                /\ capQuestions[i].status = "deprioritized"
                /\ capQuestions[k].status = "open" )
              => priority_order(capBefore[k].priority) <= priority_order(capBefore[i].priority)

C7_Witness ==
    /\ capCalls >= 1
    /\ \E i, j \in 1..Len(capBefore) :
          /\ i < j
          /\ capBefore[i].status = "open" /\ capBefore[j].status = "open"
          /\ capBefore[i].priority = "P2" /\ capBefore[j].priority = "P0"
          /\ capQuestions[i].status = "deprioritized"
          /\ capQuestions[j].status = "open"

\* ------------------------------------------------------------------
\* Properties of should_continue_passes (SpecRoute)
\* ------------------------------------------------------------------
\* C8: should_continue_passes returns continue exactly when
\* pass_number <= max_passes and done exactly when pass_number > max_passes;
\* without max_passes in the state the configured value of the file type is
\* used (3 for xlsx/xls, 2 otherwise).
C8_RouteByMaxPasses ==
    rtResult # None =>
        LET m == IF rtState.max_passes # <<>> THEN rtState.max_passes[1]
                 ELSE IF rtState.file_type \in {"xlsx", "xls"} THEN 3 ELSE 2
        IN  /\ rtResult \in {"continue", "done"}
            /\ (rtResult = "continue") <=> (rtState.pass_number <= m)
            /\ (rtResult = "done") <=> (rtState.pass_number > m)
            /\ (m = 3 /\ rtState.pass_number \in {1, 2, 3}) => rtResult = "continue"
            /\ (m = 3 /\ rtState.pass_number = 4) => rtResult = "done"
            /\ (m = 2 /\ rtState.pass_number = 3) => rtResult = "done"

C8_Witness ==
    /\ rtResult = "done"
    /\ rtState.max_passes = <<>>
    /\ rtState.file_type = "xlsx"
    /\ rtState.pass_number = 4

\* ------------------------------------------------------------------
\* Claims on the sessions of Spec
\* ------------------------------------------------------------------
\* C1: a respond or end call for a session that is not suspended at an
\* interrupt (never started, still executing a stage, or done) is rejected
\* with an error and changes neither the checkpoint nor the files on disk.
C1_ResumeWithoutSuspendRejected ==
    (lastCall.kind \in {"respond", "end"} /\ ~lastCall.hadInterrupt) =>
        /\ lastCall.result = "error_400"
        /\ ~lastCall.mutated

C3_AtMostOneResumeAccepted ==
    \A s \in SessionIds :
        ckpt[s].interrupt # <<>> => accepted[s] <= 1

\* ------------------------------------------------------------------
\* Claims on the interviews of SpecInterview
\* ------------------------------------------------------------------
\* C9: the question asked in a round is a P0 one when open P0 and open P1
\* questions both exist and the preceding turn left no follow-up; it is the
\* follow-up of the preceding turn when that turn created one.
C9_SelectionPrefersP0AndFollowUp ==
    \A r \in runs :
        (r.at = "interview_loop" /\ r.phase = "extract") =>
            LET backlog == r.vals.question_backlog
                open_with(p) == \E i \in 1..Len(backlog) :
                                   /\ backlog[i].status = "open"
                                   /\ backlog[i].priority = p
                follow_up_pending ==
                    /\ r.extraction.follow_up
                    /\ r.extraction.confidence \in {"low", "medium"}
                follow_up_at == Len(backlog) - Len(r.extraction.discovered)
            IN  /\ (open_with("P0") /\ open_with("P1") /\ ~follow_up_pending) =>
                       /\ r.asked # 0
                       /\ backlog[r.asked].priority = "P0"
                /\ follow_up_pending => r.asked = follow_up_at

\* C10: the extraction of a turn appends exactly one open follow_up-origin
\* P0 question if and only if the confidence is medium or low and a
\* follow-up was proposed; the first turn on a backlog [Q1 (P0, open),
\* Q2 (P1, open)], with confidence low and a follow-up, leaves three
\* entries: Q1 answered_by_interview, Q2 open and the follow-up.
C10_FollowUpAppendedIff ==
    [][\A r \in runs : \A r2 \in runs' :
          (/\ r.at = "interview_loop" /\ r.phase = "extract"
           /\ r2.id = r.id /\ r2.phase = "select"
           /\ r2.round_num = r.round_num + 1) =>
             LET before == r.vals.question_backlog
                 after == r2.vals.question_backlog
                 ex == r2.extraction
                 proposed == ex.follow_up /\ ex.confidence \in {"low", "medium"}
                 added == {i \in (Len(before) + 1)..Len(after) :
                              /\ after[i].origin = "follow_up"
                              /\ after[i].priority = "P0"
                              /\ after[i].status = "open"}
             IN  /\ Cardinality(added) = 1 <=> proposed
                 /\ (/\ r.round_num = 0
                     /\ Len(before) = 2
                     /\ before[1].priority = "P0" /\ before[1].status = "open"
                     /\ before[2].priority = "P1" /\ before[2].status = "open"
                     /\ ex.confidence = "low" /\ ex.follow_up
                     /\ ex.discovered = <<>>) =>
                        /\ Len(after) = 3
                        /\ after[1].status = "answered_by_interview"
                        /\ after[2].status = "open"
                        /\ 3 \in added]_vars

\* C11: when the loop is resumed with the end signal as the answer of the
\* round it is in, it goes on to the summary with every open question
\* deprioritized, with the transcript and the facts as they were, and
\* without suspending again.
C11_EndSignalEndsInterview ==
    [][\A r \in runs :
          (/\ r.at = "interview_loop" /\ r.phase = "select"
           /\ r.round_num < MAX_INTERVIEW_ROUNDS
           /\ r.round_num < Len(r.resume)
           /\ r.resume[r.round_num + 1] = EndSignal
           /\ r \notin runs') =>
             \E r2 \in runs' :
                /\ r2.id = r.id
                /\ r2.phase = "summary"
                /\ \A i \in 1..Len(r2.vals.question_backlog) :
                      r2.vals.question_backlog[i].status # "open"
                /\ r2.vals.interview_transcript = r.vals.interview_transcript
                /\ r2.vals.extracted_facts = r.vals.extracted_facts
                /\ ckpt' = ckpt]_vars

\* C12: a question is asked only below the round cap, and the question asked
\* is an open P0 or P1 question of the backlog: a pending interrupt names
\* such a question, and so does every answer being extracted.
C12_AsksOnlyOpenP0P1 ==
    /\ \A s \in SessionIds :
          ckpt[s].interrupt # <<>> =>
              /\ ckpt[s].interrupt[1].round <= MAX_INTERVIEW_ROUNDS
              /\ \A n \in 0..(DemoQuestionCount - 1) :
                    ckpt[s].interrupt[1].question_id # DemoQuestionId(n)
    /\ \A r \in runs :
          (r.at = "interview_loop" /\ r.phase = "extract") =>
              /\ r.round_num < MAX_INTERVIEW_ROUNDS
              /\ r.asked \in 1..Len(r.vals.question_backlog)
              /\ r.vals.question_backlog[r.asked].status = "open"
              /\ r.vals.question_backlog[r.asked].priority \in {"P0", "P1"}

\* C13: the fact log of a session, in the checkpointed state and in
\* interview/extracted_facts.json, never holds the same fact twice.
C13_FactLogHasNoDuplicate ==
    \A s \in SessionIds :
        LET distinct(log) == \A i, j \in 1..Len(log) : i < j => log[i] # log[j]
        IN  /\ distinct(ckpt[s].values.extracted_facts)
            /\ disk[s].extracted_facts # <<>> => distinct(disk[s].extracted_facts[1])

\* ------------------------------------------------------------------
\* Claims on _deduplicate_facts (SpecDedup)
\* ------------------------------------------------------------------
\* C14: of two facts of which one, trimmed and case-folded, equals the other
\* or is a substring of it, _deduplicate_facts returns exactly one, whichever
\* comes first: the one that contains the other, and the earlier one when
\* both have the same length.
C14_DedupOrderIndependent ==
    (dedupCalls = 1 /\ Len(dedupFacts) = 2) =>
        LET norm_1 == normalize(dedupFacts[1])
            norm_2 == normalize(dedupFacts[2])
        IN  (IsSubstring(norm_1, norm_2) \/ IsSubstring(norm_2, norm_1)) =>
               /\ Len(dedupResult) = 1
               /\ Len(norm_1) >= Len(norm_2) => dedupResult[1] = dedupFacts[1]
               /\ Len(norm_1) < Len(norm_2) => dedupResult[1] = dedupFacts[2]

\* "Ab" after " A" (the shorter one first), deduplicated to the longer one
C14_Witness ==
    /\ dedupCalls = 1
    /\ dedupFacts = << <<" ", "A">>, <<"A", "b">> >>
    /\ dedupResult = << <<"A", "b">> >>

\* C15: in every session state (a running graph's state, the checkpointed
\* state, question_backlog.json) a question whose answer is set has status
\* answered_by_files or answered_by_interview.
C15_AnswerOnlyOnAnswered ==
    LET answered(backlog) ==
            \A i \in 1..Len(backlog) :
                backlog[i].answer # None =>
                    backlog[i].status \in {"answered_by_files", "answered_by_interview"}
    IN  /\ \A r \in runs : answered(r.vals.question_backlog)
        /\ \A s \in SessionIds :
              /\ answered(ckpt[s].values.question_backlog)
              /\ disk[s].question_backlog # <<>> => answered(disk[s].question_backlog[1])

C15_Witness ==
    \E s \in SessionIds :
        LET backlog == ckpt[s].values.question_backlog
        IN  /\ \E i \in 1..Len(backlog) :
                  backlog[i].status = "answered_by_files" /\ backlog[i].answer # None
            /\ \E i \in 1..Len(backlog) :
                  backlog[i].status = "answered_by_interview" /\ backlog[i].answer # None

C17_EmptyAnswerRejected ==
    recCalls = 1 =>
        \A i \in 1..Len(recBacklog) :
            (recDecisions[i].action = "answer" /\ recDecisions[i].answer = "") =>
                /\ recResult[i].priority = recBacklog[i].priority
                /\ recResult[i].answer = recBacklog[i].answer
                /\ recResult[i].confidence = recBacklog[i].confidence
                /\ recResult[i].status \in {recBacklog[i].status, "deprioritized"}

\* ------------------------------------------------------------------
\* Claims on failing stages (SpecInterview)
\* ------------------------------------------------------------------
\* C18: whatever the reasoning service does in reconcile_questions, the
\* stage completes and the run goes on to interview_loop with a backlog of
\* the same length: the decisions applied, or, when the call failed, every
\* question at its priority and open or deprioritized.
C18_ReconcileFailureFallsBackToCap ==
    [][\A r \in runs :
          (r.at = "reconcile_questions" /\ r \notin runs') =>
              \E r2 \in runs' :
                 LET before == r.vals.question_backlog
                     after == r2.vals.question_backlog
                 IN  /\ r2.id = r.id
                     /\ r2.at = "interview_loop"
                     /\ ckpt'[r.sid].next = "interview_loop"
                     /\ Len(after) = Len(before)
                     /\ \/ \E decisions \in [1..Len(before) -> service.decisions] :
                              after = apply_decisions(before, decisions)
                        \/ \A i \in 1..Len(before) :
                              /\ after[i].priority = before[i].priority
                              /\ after[i].status \in {"open", "deprioritized"}]_vars

\* C19: a run that ends by a stage raising, whether begun by start or by a
\* resume call, leaves graph_state.json with status "error".
C19_FailedStageMarksSessionFailed ==
    [][\A r \in runs : StageFails(r) => disk'[r.sid].graph_state = "error"]_vars

\* ------------------------------------------------------------------
\* Claims on the merge of the sub-workflows' outputs (SpecFan)
\* ------------------------------------------------------------------
\* C20: the outputs of the sub-workflows, however many finish in the step,
\* write deep_dive_reports and no other key of the parent: the parent's other
\* keys keep their values, and file, pass_number, max_passes,
\* previous_passes, current_report never become keys of the parent.
C20_MergeWritesOnlyReports ==
    /\ fanParent.written \subseteq {"deep_dive_reports"}
    /\ fanParent.state = ParentBeforeFanIn.state
    /\ DOMAIN fanParent.state \cap ScratchFields = {}
    /\ fanAt = "collect_deep_dives" => fanParent.written = {"deep_dive_reports"}

C20_Witness ==
    /\ fanAt = "collect_deep_dives"
    /\ Len(fanFiles) = 2
    /\ \A f \in DOMAIN fanSub :
          /\ fanSub[f].pass_number > 1
          /\ fanSub[f].current_report # <<>>
          /\ fanSub[f].session_id = fanParent.state.session_id
    /\ fanParent.written = {"deep_dive_reports"}
    /\ Len(fanReports) >= 4

\* ------------------------------------------------------------------
\* Claims on the backlog and the transcript over the stages (SpecInterview)
\* ------------------------------------------------------------------
\* C21: once seeded, the backlog only grows at its end: in the checkpointed
\* state and in question_backlog.json the question ids before a step are a
\* prefix of the question ids after it.
C21_BacklogOnlyAppended ==
    [][LET question_ids(backlog) == [i \in 1..Len(backlog) |-> backlog[i].id]
            is_prefix(a, b) == /\ Len(a) <= Len(b)
                               /\ \A i \in 1..Len(a) : a[i] = b[i]
      IN  \A s \in SessionIds :
                  /\ is_prefix(question_ids(ckpt[s].values.question_backlog),
                               question_ids(ckpt'[s].values.question_backlog))
                  /\ disk[s].question_backlog # <<>> =>
                        /\ disk'[s].question_backlog # <<>>
                        /\ is_prefix(question_ids(disk[s].question_backlog[1]),
                                     question_ids(disk'[s].question_backlog[1]))]_vars

C23_TranscriptAppendOnly ==
    [][LET recorded(transcript) ==
                [i \in 1..Len(transcript) |->
                    <<transcript[i].turn_id, transcript[i].question_id,
                      transcript[i].user_response, transcript[i].extracted_facts>>]
            numbered(transcript) ==
                \A i \in 1..Len(transcript) : transcript[i].turn_id = i
            is_prefix(a, b) == /\ Len(a) <= Len(b)
                               /\ \A i \in 1..Len(a) : a[i] = b[i]
      IN  \A s \in SessionIds :
                  /\ numbered(ckpt'[s].values.interview_transcript)
                  /\ is_prefix(recorded(ckpt[s].values.interview_transcript),
                               recorded(ckpt'[s].values.interview_transcript))
                  /\ disk[s].transcript # <<>> =>
                        /\ disk'[s].transcript # <<>>
                        /\ numbered(disk'[s].transcript[1])
                        /\ is_prefix(recorded(disk[s].transcript[1]),
                                     recorded(disk'[s].transcript[1]))]_vars

\* ------------------------------------------------------------------
\* Claims on parse_files (SpecParse)
\* ------------------------------------------------------------------
\* C24: parse_files returns one StructuredFile per raw file, in order; the
\* StructuredFile of a file whose parsing raised carries the error instead
\* of content, and errors holds one entry for every such file.
C24_ParserFailureRecorded ==
    parseCall.result # <<>> =>
        LET raw_files == parseCall.raw_files
            structured_files == parseCall.result[1].structured_files
            errors == parseCall.result[1].errors
            raised == {i \in 1..Len(raw_files) :
                          raw_files[i] \in {"parser_raises", "save_raises"}}
        IN  /\ Len(structured_files) = Len(raw_files)
            /\ \A i \in 1..Len(raw_files) :
                  /\ structured_files[i].file_id = i
                  /\ i \in raised <=> structured_files[i].parsed_content = "error"
            /\ Len(errors) = Cardinality(raised)

\* ------------------------------------------------------------------
\* Claims on the passes of a sub-workflow (SpecFan)
\* ------------------------------------------------------------------
\* C25: a sub-workflow whose max_passes is m runs pass 1, 2, ..., m in that
\* order, one report each, never a pass beyond m, and is at END exactly when
\* pass m has run.
C25_ExactlyMaxPasses ==
    \A f \in DOMAIN fanSub :
        LET sub == fanSub[f]
            m == sub.max_passes[1]
        IN  /\ m >= 1
            /\ Len(sub.deep_dive_reports) = sub.pass_number - 1
            /\ \A k \in 1..Len(sub.deep_dive_reports) :
                  /\ sub.deep_dive_reports[k].pass_number = k
                  /\ sub.deep_dive_reports[k].file_id = sub.file.file_id
            /\ sub.at = "run_pass" => sub.pass_number <= m
            /\ sub.at = "END" <=> Len(sub.deep_dive_reports) = m

C25_Witness ==
    /\ Len(fanFiles) = 2
    /\ \E f, g \in DOMAIN fanSub :
          /\ fanSub[f].at = "END" /\ fanSub[f].max_passes = <<3>>
          /\ Len(fanSub[f].deep_dive_reports) = 3
          /\ fanSub[g].at = "run_pass" /\ fanSub[g].max_passes = <<2>>
          /\ fanSub[g].pass_number = 2

\* C26: when pass k of a sub-workflow is about to run, previous_passes
\* holds the reports of passes 1..k-1 of its file in pass order; the pass
\* that ran last was given every report that preceded it.
C26_EveryPriorReportGiven ==
    \A f \in DOMAIN fanSub :
        LET sub == fanSub[f]
            k == sub.pass_number
        IN  /\ Len(sub.previous_passes) = k - 1
            /\ \A j \in 1..(k - 1) :
                  /\ sub.previous_passes[j].pass_number = j
                  /\ sub.previous_passes[j].file_id = sub.file.file_id
            /\ k > 1 => sub.user_prompt = SubSeq(sub.previous_passes, 1, k - 2)

\* ------------------------------------------------------------------
\* Claims on the turns of the interview (SpecInterview)
\* ------------------------------------------------------------------
\* C27: once the extraction of a turn is done, the question_id of the turn
\* appended last is the id of a backlog entry that is answered_by_interview
\* with the raw response as its answer and a confidence.
C27_AskedQuestionMarkedAnswered ==
    \A r \in runs :
        (r.at = "interview_loop" /\ r.vals.interview_transcript # <<>>) =>
            LET backlog == r.vals.question_backlog
                turn == r.vals.interview_transcript[Len(r.vals.interview_transcript)]
            IN  \E i \in 1..Len(backlog) :
                    /\ backlog[i].id = turn.question_id
                    /\ backlog[i].status = "answered_by_interview"
                    /\ backlog[i].answer = turn.user_response
                    /\ backlog[i].confidence # None

C29_SeededFromLatestReports ==
    fanAt = "global_summarize" =>
        LET top(f) == CHOOSE i \in 1..Len(fanReports) :
                         /\ fanReports[i].file_id = f
                         /\ \A j \in 1..Len(fanReports) :
                               fanReports[j].file_id = f
                                  => fanReports[j].pass_number <= fanReports[i].pass_number
        IN  /\ \A f \in 1..Len(fanFiles) : \A k \in 1..fanReports[top(f)].questions :
                  Cardinality({i \in 1..Len(fanBacklog) :
                      fanBacklog[i].question_text
                          = <<f, fanReports[top(f)].pass_number, k>>}) = 1
            /\ \A i \in 1..Len(fanBacklog) :
                  LET q == fanBacklog[i]
                      f == q.question_text[1]
                  IN  /\ f \in 1..Len(fanFiles)
                      /\ q.question_text[2] = fanReports[top(f)].pass_number
                      /\ q.question_text[3] \in 1..fanReports[top(f)].questions
                      /\ q.origin = "per_file"
                      /\ q.status = "open"
                      /\ q.source_file_id = f

\* two files: the last report of one has a question, the other has a question
\* in an earlier report and none in its last
C29_Witness ==
    /\ fanAt = "global_summarize"
    /\ Len(fanFiles) = 2
    /\ Len(fanBacklog) = 1
    /\ \E i \in 1..Len(fanReports) :
          /\ fanReports[i].questions = 1
          /\ fanReports[i].file_id # fanBacklog[1].source_file_id

\* ------------------------------------------------------------------
\* Claims on the paths of reconcile_questions (SpecReconcile)
\* ------------------------------------------------------------------
\* C30: whichever path reconcile_questions returns on (empty backlog, failed
\* call or no decision, decisions applied), and after _apply_decisions alone,
\* the backlog returned has at most MAX_OPEN_QUESTIONS open questions, also when
\* decisions omit questions or name an unknown action.
C30_ReconcileKeepsCap ==
    (recPath \notin {"none", "raised"} \/ recCalls = 1) =>
        /\ Len(recResult) = Len(recBacklog)
        /\ Cardinality({i \in 1..Len(recResult) : recResult[i].status = "open"})
              <= recMax

\* decisions applied: one question omitted, one with an unknown action, more
\* than the cap allows, and the cap deprioritized one of them
C30_Witness ==
    /\ recPath = "decisions"
    /\ Len(recBacklog) = 2
    /\ recMax = 1
    /\ recDecisions[1] = Omitted
    /\ recDecisions[2].action = "other"
    /\ \E i \in 1..2 : recResult[i].status = "deprioritized"
    /\ \E i \in 1..2 : recResult[i].status = "open"

\* ------------------------------------------------------------------
\* Claims on the output of _deduplicate_facts (SpecDedup)
\* ------------------------------------------------------------------
\* C31: the output of _deduplicate_facts is a subsequence of its input, in
\* order; no two of its entries are equal after strip and lower, none is a
\* substring of another (as given or after strip and lower), no two have a
\* content-word Jaccard similarity of 0.55 or more; deduplicating the output
\* again returns it unchanged.
C31_DedupOutputPairwiseDistinct ==
    dedupCalls = 1 =>
        LET out == dedupResult
            words(fact) == tokenize(normalize(fact))
            similar(x, y) ==
                /\ words(x) # {}
                /\ words(y) # {}
                /\ 100 * Cardinality(words(x) \cap words(y))
                      >= 55 * Cardinality(words(x) \cup words(y))
        IN  /\ \E at \in [1..Len(out) -> 1..Len(dedupFacts)] :
                  /\ \A i \in 1..Len(out) : dedupFacts[at[i]] = out[i]
                  /\ \A i \in 1..Len(out) : \A j \in 1..Len(out) :
                        i < j => at[i] < at[j]
            /\ \A i \in 1..Len(out) : \A j \in 1..Len(out) :
                  i # j =>
                      /\ normalize(out[i]) # normalize(out[j])
                      /\ ~IsSubstring(normalize(out[i]), normalize(out[j]))
                      /\ ~IsSubstring(out[i], out[j])
                      /\ ~similar(out[i], out[j])
            /\ deduplicate_facts(out) = out

\* three facts: two with the same content words neither of which is a
\* substring of the other, and a third that is kept with one of them
C31_Witness ==
    /\ dedupCalls = 1
    /\ Len(dedupFacts) = 3
    /\ Len(dedupResult) = 2
    /\ \E i \in 1..3 : \E j \in 1..3 :
          /\ i < j
          /\ jaccard_similar(tokenize(normalize(dedupFacts[i])),
                             tokenize(normalize(dedupFacts[j])))
          /\ ~IsSubstring(normalize(dedupFacts[i]), normalize(dedupFacts[j]))
          /\ ~IsSubstring(normalize(dedupFacts[j]), normalize(dedupFacts[i]))

\* ------------------------------------------------------------------
\* Claims on the stages after the interview (SpecInterview)
\* ------------------------------------------------------------------
\* C32: the two stages that follow interview_loop write no common key that
\* has no reducer, and a run that executes them completes: it leaves a
\* checkpoint with nothing more to run, written by one of the two stages.
C32_FinalStagesMerge ==
    [][\A r \in runs :
          (r.at = "final" /\ r \notin runs') =>
              /\ update_conflicts(FinalWrites) = {}
              /\ ckpt'[r.sid].next = ""
              /\ ckpt'[r.sid].values.status \in {"package_generated", "complete"}]_vars

\* ------------------------------------------------------------------
\* Claims on the replay of the interview stage (SpecInterview)
\* ------------------------------------------------------------------
\* C33: when a resumed run comes to the answer that was just supplied, the
\* question it has selected for that round, against which it records the
\* answer (the question_id of the InterviewTurn, the backlog entry marked
\* answered_by_interview), is the question of the suspend payload the answer
\* was given to.
C33_AnswerRecordedAgainstPresented ==
    \A r \in runs :
        (/\ r.at = "interview_loop"
         /\ r.phase = "extract"
         /\ r.round_num + 1 = Len(r.resume)
         /\ ckpt[r.sid].interrupt # <<>>)
            => r.asked_id = ckpt[r.sid].interrupt[1].question_id

\* C34: when interview_loop returns, the extracted_facts of the new
\* checkpoint are those of the checkpoint the stage was entered from, followed
\* by the facts of every turn of the returned transcript, in turn order, each
\* once.
C34_FactsMergedOnce ==
    [][\A r \in runs :
          (r.at = "interview_loop" /\ r.phase = "summary" /\ r \notin runs') =>
              LET transcript == ckpt'[r.sid].values.interview_transcript
                  turn_facts[k \in 0..Len(transcript)] ==
                      IF k = 0 THEN <<>>
                      ELSE turn_facts[k - 1] \o transcript[k].extracted_facts
              IN  ckpt'[r.sid].values.extracted_facts
                     = ckpt[r.sid].values.extracted_facts
                          \o turn_facts[Len(transcript)]]_vars

\* ------------------------------------------------------------------
\* Claims on merge decisions (SpecReconcile)
\* ------------------------------------------------------------------
\* C35: a question that _apply_decisions marks merged was merged into another
\* question of the backlog that is itself not merged: its decision carries a
\* merge_into that names an existing question other than itself, and that
\* question is not merged.
C35_MergedIntoLiveQuestion ==
    recCalls = 1 =>
        \A i \in 1..Len(recResult) :
            recResult[i].status = "merged" =>
                /\ "merge_into" \in DOMAIN recDecisions[i]
                /\ recDecisions[i].merge_into \in (1..Len(recResult)) \ {i}
                /\ recResult[recDecisions[i].merge_into].status # "merged"

\* C36: every question of the persisted snapshot question_backlog.json has a
\* status of QuestionStatus, and once the end operation has taken the run out
\* of interview_loop the snapshot gives each question the status it has in
\* the backlog of the session state.
C36_SnapshotStatusesValid ==
    /\ \A s \in SessionIds :
          disk[s].question_backlog # <<>> =>
              \A i \in 1..Len(disk[s].question_backlog[1]) :
                  disk[s].question_backlog[1][i].status \in QuestionStatus
    /\ \A r \in runs :
          (r.kind = "end" /\ r.at = "final" /\ disk[r.sid].question_backlog # <<>>) =>
              LET file == disk[r.sid].question_backlog[1]
                  backlog == r.vals.question_backlog
              IN  /\ Len(file) = Len(backlog)
                  /\ \A i \in 1..Len(file) : file[i].status = backlog[i].status

\* C37: whatever decision list the reasoning service returns, a call of
\* _apply_decisions or of reconcile_questions on a non-empty backlog does not
\* raise, and the backlog it returns has every question in a status of
\* QuestionStatus and a priority of QuestionPriority, one per original question.
C37_AnyDecisionListHandled ==
    recPath # "raised"
    /\ ((recCalls = 1 \/ recPath \in {"cap_only", "decisions"}) =>
           /\ Len(recResult) = Len(recBacklog)
           /\ \A i \in 1..Len(recResult) :
                 /\ recResult[i].status \in QuestionStatus
                 /\ recResult[i].priority \in QuestionPriority)

\* C38: a run started by respond_to_question that leaves the while loop of
\* interview_loop has processed every response given to it as an answer: each
\* resume value went through extraction and appended one InterviewTurn, and
\* the last turn records the text that was submitted.
C38_RespondIsAlwaysAnAnswer ==
    \A r \in runs :
        (r.kind = "respond" /\ r.at = "interview_loop" /\ r.phase = "summary") =>
            /\ r.round_num = Len(r.resume)
            /\ Len(r.vals.interview_transcript) = Len(r.resume)

\* ------------------------------------------------------------------
\* Claims on what _deduplicate_facts removes (SpecDedup)
\* ------------------------------------------------------------------
\* C39: every fact of the input that is missing from the output of
\* _deduplicate_facts is a duplicate of a fact of the output: equal to it after
\* strip and lower, or one a substring of the other, or with a content-word
\* Jaccard similarity of 0.55 or more.
C39_RemovedOnlyForAKeptFact ==
    dedupCalls = 1 =>
        \A i \in 1..Len(dedupFacts) :
            LET n == normalize(dedupFacts[i])
                t == tokenize(n)
            IN  \E k \in 1..Len(dedupResult) :
                    LET m == normalize(dedupResult[k])
                        u == tokenize(m)
                    IN  \/ n = m
                        \/ IsSubstring(n, m)
                        \/ IsSubstring(m, n)
                        \/ /\ t # {}
                           /\ u # {}
                           /\ 100 * Cardinality(t \cap u) >= 55 * Cardinality(t \cup u)

====
